---- MODULE Spec2Model ----
(***************************************************************************)
(* A model of the windowing, balancing, cross-validation, feature          *)
(* extraction and online-inference code of bionic_apps.                    *)
(*                                                                         *)
(* Arrays are modelled as numpy models them: a shape, strides (counted in  *)
(* elements) and a flat backing buffer.  Every sample of a buffer carries  *)
(* its own address as value, so two array elements are equal exactly when  *)
(* they are the same sample of the backing buffer.                         *)
(*                                                                         *)
(* Durations given in seconds are exact rationals [num, den]; the          *)
(* denominators used are powers of two, for which the float product        *)
(* window_length * fs of the source is exact.                              *)
(***************************************************************************)
EXTENDS Integers, Sequences, FiniteSets, TLC

\* ------------------------------------------------------------------ bounds
MaxT == 5          \* samples per channel of an enumerated data matrix
MaxCh == 2         \* channels of an enumerated data matrix
MaxFs == 2         \* sampling rates 1..MaxFs of the enumerated calls
MaxSecNum == 4     \* durations -MaxSecNum/2 .. MaxSecNum/2 seconds
MaxSamples == 5    \* sample counts -1..MaxSamples handed to _windowed_view
MaxSubjId == 5     \* subject ids 1..MaxSubjId of the processed database
MaxEpochs == 5     \* epochs handed to balance_epoch_nums
NumLabels == 3     \* labels 1..NumLabels the epochs may carry
MaxWindows == 2    \* windows in the training and in the test data of a fold
MaxPreds == 2      \* sufficient windows the acquisition delivers in one online run
MaxCalls == 2      \* calls of offline_processing made on one BCISystem
MaxRuns == 3       \* experiment functions called one after the other in a process
MaxProcessRuns == 3  \* calls of process_run made one after the other
MaxValue == 5      \* values a function run by process_run returns

VARIABLES
    w_data,        \* windowing: the data argument (a 2-D array)
    w_call,        \* windowing: the call made, or NoCall
    w_result,      \* windowing: what the call produced
    cv_subjects,   \* cross-validation: the subjects of the processed database, in order
    cv_pc,         \* cross-validation: position in _subject_crossvalidate
    cv_save,       \* cross-validation: the save_model argument
    cv_folds,      \* cross-validation: the folds kfold.split(self._proc) yields
    cv_k,          \* cross-validation: index of the next fold of the for loop
    cv_seen,       \* cross-validation: the folds the loop body has processed
    ai_model,      \* cross-validation: the dict ai_model (subject -> fitted svm)
    model_file,    \* the file proc_db_path + AI_MODEL, or NoFile
    other_files,   \* the files written under any other name
    b_epochs,      \* balancing: the epochs argument (epoch i is tagged i)
    b_labels,      \* balancing: the labels argument
    b_groups,      \* balancing: the groups array the caller holds
    b_out,         \* balancing: what balance_epoch_nums returned, or NoCall
    b_again,       \* balancing: what a second call on the same arguments returned, or NoCall
    f_train,       \* features: the training windows (one value per window)
    f_test,        \* features: the test windows
    f_user,        \* features: the caller's own pipeline object (USER_PIPELINE)
    f_clf,         \* features: the classifier pipeline of the current fold, or NoObject
    f_last,        \* features: the last call and what it returned, or NoCall
    o_pc,          \* online: position in online_processing
    o_args,        \* online: the arguments of the call
    o_proc,        \* online: self._proc
    o_svm,         \* online: the model ai_model[subject], once loaded
    o_dsp,         \* online: dsp.fs and self._window_length
    o_alive,       \* online: data_sender.is_alive()
    o_stop,        \* online: the caller has asked the run to stop
    o_data,        \* online: the shape of the window acquired in this iteration
    o_label,       \* online: the variable label
    y_preds,       \* online: the list y_preds
    y_real,        \* online: the list y_real
    o_timing,      \* online: the elapsed time and the sleep of the last processed iteration
    o_count,       \* online: sufficient windows acquired and inferences started so far
    o_error,       \* online: the exception that ended the call, or None
    v_args,        \* configuration: feature type, classifier type, fs, scale, norm, info
    v_pair,        \* configuration: what validate_feature_classifier_pair produced, or NoCall
    v_ext,         \* configuration: what get_feature_extractor produced, or NoCall
    t_pc,          \* test_db: position in test_db
    t_subjects,    \* test_db: loader.get_subject_list()
    t_cp,          \* test_db: the subj_cp argument
    t_k,           \* test_db: index of the next subject of the for loop
    t_res,         \* test_db: the dict res (four columns)
    t_log,         \* test_db: the file log_file
    t_completed,   \* test_db: the subjects this call has completed, with their accuracies
    t_error,       \* test_db: the exception that ended the call, or None
    e_data,        \* window_epochs: the data argument (a 3-D array of epochs)
    e_call,        \* window_epochs: the call made, or NoCall
    e_result,      \* window_epochs: what the call produced
    s_pc,          \* offline: position in offline_processing
    s_args,        \* offline: the arguments of the call
    s_proc,        \* offline: self._proc of the BCISystem
    s_error,       \* offline: the exception that ended the call, or None
    s_result,      \* offline: what the call returned
    s_calls,       \* offline: the calls made on this BCISystem so far
    TEST,          \* experiments: the module-level TEST of multi_svm.py
    x_last,        \* experiments: the experiment function called last
    x_calls,       \* experiments: the experiment functions called so far
    p_pc,          \* process_run: position of the parent
    p_func,        \* process_run: what func does when it is called
    p_ans,         \* process_run: ans in the parent
    p_out,         \* process_run: the value returned or the exception raised
    p_joined,      \* process_run: p.join() has returned
    p_runs,        \* process_run: calls made so far
    c_pc,          \* process_run: position of the child process
    queue,         \* process_run: the items the queue can deliver
    k_pc,          \* stacking: position in test_db / train_test_model
    k_epochs,      \* stacking: the labels of the epochs (ep_labels) and W
    k_rows,        \* stacking: windowed_data after np.vstack
    k_groups,      \* stacking: groups
    k_labels,      \* stacking: labels
    k_left,        \* stacking: groups the splitter has not yet put in a test set
    k_fold,        \* stacking: folds delivered so far
    k_train,       \* stacking: train indices of the current fold
    k_test,        \* stacking: test indices of the current fold
    k_clf,         \* stacking: the classifier of the current fold
    k_made         \* stacking: classifier objects constructed so far

wvars == <<w_data, w_call, w_result>>
cvvars == <<cv_subjects, cv_pc, cv_save, cv_folds, cv_k, cv_seen, ai_model, model_file,
            other_files>>
bvars == <<b_epochs, b_labels, b_groups, b_out, b_again>>
fvars == <<f_train, f_test, f_user, f_clf, f_last>>
ovars == <<o_pc, o_args, o_proc, o_svm, o_dsp, o_alive, o_stop, o_data, o_label,
           y_preds, y_real, o_timing, o_count, o_error>>
vvars == <<v_args, v_pair, v_ext>>
tvars == <<t_pc, t_subjects, t_cp, t_k, t_res, t_log, t_completed, t_error>>
evars == <<e_data, e_call, e_result>>
svars == <<s_pc, s_args, s_proc, s_error, s_result, s_calls>>
xvars == <<TEST, x_last, x_calls>>
pvars == <<p_pc, p_func, p_ans, p_out, p_joined, p_runs, c_pc, queue>>
kvars == <<k_pc, k_epochs, k_rows, k_groups, k_labels, k_left, k_fold, k_train, k_test,
           k_clf, k_made>>
vars == <<w_data, w_call, w_result,
          cv_subjects, cv_pc, cv_save, cv_folds, cv_k, cv_seen, ai_model, model_file,
          other_files,
          b_epochs, b_labels, b_groups, b_out, b_again,
          f_train, f_test, f_user, f_clf, f_last,
          o_pc, o_args, o_proc, o_svm, o_dsp, o_alive, o_stop, o_data, o_label,
          y_preds, y_real, o_timing, o_count, o_error,
          v_args, v_pair, v_ext,
          t_pc, t_subjects, t_cp, t_k, t_res, t_log, t_completed, t_error,
          e_data, e_call, e_result,
          s_pc, s_args, s_proc, s_error, s_result, s_calls,
          TEST, x_last, x_calls,
          p_pc, p_func, p_ans, p_out, p_joined, p_runs, c_pc, queue,
          k_pc, k_epochs, k_rows, k_groups, k_labels, k_left, k_fold, k_train, k_test,
          k_clf, k_made>>

\* What the operations of one part of the program leave alone.
notWindow == <<cvvars, bvars, fvars, ovars, vvars, tvars, evars, svars, xvars, pvars, kvars>>
notCv == <<wvars, bvars, fvars, ovars, vvars, tvars, evars, svars, xvars, pvars, kvars>>
notBalance == <<wvars, cvvars, fvars, ovars, vvars, tvars, evars, svars, xvars, pvars, kvars>>
notFeature == <<wvars, cvvars, bvars, ovars, vvars, tvars, evars, svars, xvars, pvars, kvars>>
notOnline == <<wvars, cv_subjects, cv_pc, cv_save, cv_folds, cv_k, cv_seen, ai_model,
               other_files,
               bvars, fvars, vvars, tvars, evars, svars, xvars, pvars, kvars>>
notConfig == <<wvars, cvvars, bvars, fvars, ovars, tvars, evars, svars, xvars, pvars, kvars>>
notTestDb == <<wvars, cvvars, bvars, fvars, ovars, vvars, evars, svars, xvars, pvars, kvars>>
notEpochs == <<wvars, cvvars, bvars, fvars, ovars, vvars, tvars, svars, xvars, pvars, kvars>>

NoCall == [fn |-> "none"]
None == "None"

\* ------------------------------------------------------------- arithmetic
Min(a, b) == IF a <= b THEN a ELSE b
Max(a, b) == IF a >= b THEN a ELSE b

\* The elements of a finite set of integers in ascending order (np.sort,
\* np.unique, a sorted subject list).
RECURSIVE Ascending(_)
Ascending(S) ==
    IF S = {} THEN <<>>
    ELSE LET m == CHOOSE x \in S : \A y \in S : x <= y
         IN  <<m>> \o Ascending(S \ {m})

\* Python's int() of the exact quotient n/d (d > 0): truncation towards zero.
PyInt(n, d) == IF n >= 0 THEN n \div d ELSE -((-n) \div d)

\* int(seconds * fs), as in window_data and window_epochs.
SecToSamples(sec, fs) == PyInt(sec.num * fs, sec.den)

\* The stop of the basic slice x[:stop] on an axis of length n.
SliceStop(stop, n) == IF stop >= 0 THEN Min(stop, n) ELSE Max(n + stop, 0)

\* ------------------------------------------------------------------ arrays
\* A C-contiguous (n_channels, time) matrix; buf[a] = a tags every sample.
MakeData(C, T) ==
    [shape |-> <<C, T>>, strides |-> <<T, 1>>, buf |-> [a \in 0..(C * T - 1) |-> a]]

\* Address of element (c, t) of a 2-D array, and of element (i, c, j) of a
\* 3-D view of it.
Addr2(arr, c, t) == c * arr.strides[1] + t * arr.strides[2]
Addr3(view, i, c, j) == i * view.strides[1] + c * view.strides[2] + j * view.strides[3]

\* Reading an address of the backing buffer; an address outside the buffer
\* reads memory that does not belong to the array.
OutOfBuffer == 0 - 1
ReadBuf(arr, a) == IF a \in DOMAIN arr.buf THEN arr.buf[a] ELSE OutOfBuffer

\* --------------------------------------------------------------- windowing
Raised(err) == [status |-> err, shape |-> <<>>, strides |-> <<>>]

\* np.lib.stride_tricks.as_strided: a view of data's buffer with the given
\* shape and strides; numpy refuses a negative dimension.
AsStrided(data, new_shape, new_strides) ==
    IF \E k \in DOMAIN new_shape : new_shape[k] < 0
    THEN Raised("ValueError")
    ELSE [status |-> "ok", shape |-> new_shape, strides |-> new_strides]

\* Mutant of FirstSamples: the single window is given window_length samples
\* whatever the data holds.
FirstSamplesUnclamped(data, window_length) ==
    [status |-> "ok",
     shape |-> <<1, data.shape[1], window_length>>,
     strides |-> <<0, data.strides[1], data.strides[2]>>]

\* data[..., :window_length] followed by np.expand_dims(result, axis=0).
FirstSamples(data, window_length) ==
    [status |-> "ok",
     shape |-> <<1, data.shape[1], SliceStop(window_length, data.shape[2])>>,
     strides |-> <<0, data.strides[1], data.strides[2]>>]

\* Mutant of WindowData: the overlap is left out of the window count.
WindowDataIgnoresOverlap(data, window_length_s, window_step_s, fs) ==
    LET window_length == SecToSamples(window_length_s, fs)
        window_step == SecToSamples(window_step_s, fs)
    IN  IF window_step > 0
        THEN LET n_windows == data.shape[2]
             IN  IF ~(n_windows > 0)
                 THEN Raised("AssertionError")
                 ELSE AsStrided(data,
                                <<n_windows \div window_step, data.shape[1], window_length>>,
                                <<window_step * data.strides[2], data.strides[1], data.strides[2]>>)
        ELSE IF window_step = 0
        THEN FirstSamples(data, window_length)
        ELSE Raised("ValueError")

\* bionic_apps.utils.window_data (window_length, window_step in seconds).
WindowData(data, window_length_s, window_step_s, fs) ==
    LET window_length == SecToSamples(window_length_s, fs)
        window_step == SecToSamples(window_step_s, fs)
    IN  IF window_step > 0
        THEN LET overlap == window_length - window_step
                 n_windows == data.shape[2] - overlap
             IN  IF ~(n_windows > 0)
                 THEN Raised("AssertionError")
                 ELSE AsStrided(data,
                                <<n_windows \div window_step, data.shape[1], window_length>>,
                                <<window_step * data.strides[2], data.strides[1], data.strides[2]>>)
        ELSE IF window_step = 0
        THEN FirstSamples(data, window_length)
        ELSE Raised("ValueError")

\* Mutant of WindowedView: a last, partial window is counted too.
WindowedViewCountsPartial(data, window_length, window_step) ==
    IF window_step > 0
    THEN LET overlap == window_length - window_step
             n_windows == data.shape[2] - overlap
         IN  IF ~(n_windows > 0)
             THEN Raised("AssertionError")
             ELSE AsStrided(data,
                            <<(n_windows + window_step - 1) \div window_step,
                              data.shape[1], window_length>>,
                            <<window_step * data.strides[2], data.strides[1], data.strides[2]>>)
    ELSE IF window_step = 0
    THEN FirstSamples(data, window_length)
    ELSE Raised("ValueError")

\* sklearn_pipeline_bci.utils._windowed_view (window_length, window_step in
\* sample points).
WindowedView(data, window_length, window_step) ==
    IF window_step > 0
    THEN LET overlap == window_length - window_step
             n_windows == data.shape[2] - overlap
         IN  IF ~(n_windows > 0)
             THEN Raised("AssertionError")
             ELSE AsStrided(data,
                            <<n_windows \div window_step, data.shape[1], window_length>>,
                            <<window_step * data.strides[2], data.strides[1], data.strides[2]>>)
    ELSE IF window_step = 0
    THEN FirstSamples(data, window_length)
    ELSE Raised("ValueError")

\* The inputs of the enumerated calls.
Seconds == {[num |-> n, den |-> 2] : n \in (0 - MaxSecNum)..MaxSecNum}
SampleCounts == (0 - 1)..MaxSamples

\* The scenario of the specification: 3 channels, 1000 samples, fs = 100 Hz,
\* windows of 2 s every 0.5 s.
ScenarioData == MakeData(3, 1000)
ScenarioArgs == [window_length |-> [num |-> 4, den |-> 2],
                 window_step |-> [num |-> 1, den |-> 2],
                 fs |-> 100]
WindowDataArgs ==
    {[window_length |-> wl, window_step |-> ws, fs |-> f] :
        wl \in Seconds, ws \in Seconds, f \in 1..MaxFs} \cup {ScenarioArgs}

WindowStart ==
    /\ w_data \in {MakeData(C, T) : C \in 1..MaxCh, T \in 1..MaxT} \cup {ScenarioData}
    /\ w_call = NoCall
    /\ w_result = NoCall

\* One call of window_data on the data matrix.
WindowDataCall ==
    /\ w_call = NoCall
    /\ \E a \in WindowDataArgs :
        /\ w_call' = [fn |-> "window_data", window_length |-> a.window_length,
                      window_step |-> a.window_step, fs |-> a.fs,
                      L |-> SecToSamples(a.window_length, a.fs),
                      S |-> SecToSamples(a.window_step, a.fs)]
        /\ w_result' = WindowData(w_data, a.window_length, a.window_step, a.fs)
    /\ UNCHANGED <<w_data, notWindow>>

\* One call of _windowed_view on the data matrix.
WindowedViewCall ==
    /\ w_call = NoCall
    /\ \E L \in SampleCounts, S \in SampleCounts :
        /\ w_call' = [fn |-> "_windowed_view", L |-> L, S |-> S]
        /\ w_result' = WindowedView(w_data, L, S)
    /\ UNCHANGED <<w_data, notWindow>>

WindowNext == WindowDataCall \/ WindowedViewCall

WindowIdle ==
    /\ w_data = MakeData(1, 1)
    /\ w_call = NoCall
    /\ w_result = NoCall

\* ----------------------------------------------------------- window_epochs
\* A C-contiguous (n_epochs, n_channels, time) array; buf[a] = a.
MakeEpochs(N, C, T) ==
    [shape |-> <<N, C, T>>, strides |-> <<C * T, T, 1>>,
     buf |-> [a \in 0..(N * C * T - 1) |-> a]]

\* data[i, :, :]: a view of epoch i, starting at its offset in data's buffer.
EpochView(data, i) ==
    [shape |-> <<data.shape[2], data.shape[3]>>,
     strides |-> <<data.strides[2], data.strides[3]>>,
     offset |-> i * data.strides[1],
     buf |-> data.buf]

\* np.array(x) of the windows x of an epoch: a new array with a buffer of
\* its own, holding the value each element of x reads.
NpArray(epoch, x) ==
    [i \in 0..(x.shape[1] - 1) |->
        [c \in 0..(x.shape[2] - 1) |->
            [j \in 0..(x.shape[3] - 1) |-> ReadBuf(epoch, epoch.offset + Addr3(x, i, c, j))]]]

\* bionic_apps.utils.window_epochs: window_data on every epoch, each
\* result copied by np.array, the copies stacked by np.array.
WindowEpochs(data, window_length_s, window_step_s, fs) ==
    LET x == [i \in 0..(data.shape[1] - 1) |->
                 WindowData(EpochView(data, i), window_length_s, window_step_s, fs)]
    IN  IF x[0].status # "ok"
        THEN [status |-> x[0].status, shape |-> <<>>, owns_data |-> FALSE, values |-> <<>>]
        ELSE [status |-> "ok",
              shape |-> <<data.shape[1]>> \o x[0].shape,
              owns_data |-> TRUE,
              values |-> [i \in 0..(data.shape[1] - 1) |-> NpArray(EpochView(data, i), x[i])]]

EpochsStart ==
    /\ e_data \in {MakeEpochs(N, C, T) : N \in 1..MaxEpochs, C \in 1..MaxCh, T \in 1..MaxT}
    /\ e_call = NoCall
    /\ e_result = NoCall

EpochsIdle ==
    /\ e_data = MakeEpochs(1, 1, 1)
    /\ e_call = NoCall
    /\ e_result = NoCall

\* One call of window_epochs on the epochs array.
WindowEpochsCall ==
    /\ e_call = NoCall
    /\ \E wl \in Seconds, ws \in Seconds, f \in 1..MaxFs :
        /\ e_call' = [fn |-> "window_epochs", window_length |-> wl, window_step |-> ws,
                      fs |-> f, L |-> SecToSamples(wl, f), S |-> SecToSamples(ws, f)]
        /\ e_result' = WindowEpochs(e_data, wl, ws, f)
    /\ UNCHANGED <<e_data, notEpochs>>

EpochsNext == WindowEpochsCall

\* --------------------------------------------------- windowing: properties
Called == w_call.fn # "none"
Returned == Called /\ w_result.status = "ok"
NChannels == w_data.shape[1]
NSamples == w_data.shape[2]

\* Sample j of channel c of window i of the result, and sample t of channel
\* c of the data.
WindowSample(i, c, j) == ReadBuf(w_data, Addr3(w_result, i, c, j))
DataSample(c, t) == IF t \in 0..(NSamples - 1) THEN ReadBuf(w_data, Addr2(w_data, c, t))
                    ELSE OutOfBuffer

\* Window i of the result has n samples per channel and is the raw slice
\* data[:, start : start + n].
WindowIsSlice(i, start, n) ==
    /\ w_result.shape[2] = NChannels
    /\ w_result.shape[3] = n
    /\ \A c \in 0..(NChannels - 1), j \in 0..(n - 1) :
        /\ WindowSample(i, c, j) # OutOfBuffer
        /\ WindowSample(i, c, j) = DataSample(c, start + j)

\* C1: for L >= 1, S >= 1 and T >= L, window_data and _windowed_view return
\* exactly floor((T - (L - S)) / S) windows, window i being the raw slice
\* data[:, i*S : i*S + L]; in the scenario (3 x 1000 samples, fs = 100,
\* 2 s windows every 0.5 s) that is 17 windows of shape 3 x 200, window 0
\* being samples [0, 200) and window 16 samples [800, 1000).
WindowsAreRawSlices ==
    /\ (Called /\ w_call.L >= 1 /\ w_call.S >= 1 /\ NSamples >= w_call.L) =>
        /\ w_result.status = "ok"
        /\ w_result.shape[1] = (NSamples - (w_call.L - w_call.S)) \div w_call.S
        /\ \A i \in 0..(w_result.shape[1] - 1) : WindowIsSlice(i, i * w_call.S, w_call.L)
    /\ (w_data = ScenarioData /\ w_call.fn = "window_data"
            /\ w_call.window_length = ScenarioArgs.window_length
            /\ w_call.window_step = ScenarioArgs.window_step
            /\ w_call.fs = ScenarioArgs.fs) =>
        /\ w_result.status = "ok"
        /\ w_result.shape = <<17, 3, 200>>
        /\ WindowIsSlice(0, 0, 200)
        /\ WindowIsSlice(16, 800, 200)

\* C1 witness: the scenario call has returned its 17 windows.
ScenarioWindowsReturned ==
    /\ w_data = ScenarioData
    /\ w_call.fn = "window_data"
    /\ w_call.L = 200 /\ w_call.S = 50
    /\ Returned
    /\ w_result.shape[1] = 17

\* C2 (as stated): when the step converts to S = 0 samples, window_data
\* returns exactly one window, and that window is the first L samples of
\* every channel, whether or not T >= L (stated for L >= 1).
SingleWindowOfFirstL ==
    (w_call.fn = "window_data" /\ w_call.S = 0 /\ w_call.L >= 1) =>
        /\ w_result.status = "ok"
        /\ w_result.shape[1] = 1
        /\ WindowIsSlice(0, 0, w_call.L)

\* C2 (amended): when the step converts to S = 0 samples, window_data
\* returns exactly one window, the slice data[:, :L]: the first L samples of
\* every channel when 0 <= L <= T, all T samples when L > T, and all but the
\* last -L samples when L < 0.
SingleWindowOfSlice ==
    (w_call.fn = "window_data" /\ w_call.S = 0) =>
        /\ w_result.status = "ok"
        /\ w_result.shape[1] = 1
        /\ (0 <= w_call.L /\ w_call.L <= NSamples) => WindowIsSlice(0, 0, w_call.L)
        /\ w_call.L > NSamples => WindowIsSlice(0, 0, NSamples)
        /\ (w_call.L < 0 /\ NSamples + w_call.L >= 0) =>
                WindowIsSlice(0, 0, NSamples + w_call.L)
        /\ (w_call.L < 0 /\ NSamples + w_call.L < 0) => WindowIsSlice(0, 0, 0)

\* C2 witness: a call with S = 0 and a window longer than the data has
\* returned.
SingleWindowLongerThanData ==
    /\ w_call.fn = "window_data"
    /\ w_call.S = 0
    /\ NSamples >= 1
    /\ w_call.L > NSamples
    /\ Returned

\* C3: window_data called with a negative window_step (in seconds) fails
\* with ValueError, for every fs and data matrix (stated for the window
\* lengths 1 <= L <= T, which the data can fill).
NegativeStepRaisesValueError ==
    (w_call.fn = "window_data" /\ w_call.window_step.num < 0
        /\ w_call.L >= 1 /\ w_call.L <= NSamples) =>
            w_result.status = "ValueError"

\* C4: window_data (and _windowed_view) called with a step S > 0 and a
\* window length L larger than the number of samples T fails with the
\* n_windows assertion.
LongWindowRaisesAssertion ==
    (Called /\ w_call.S > 0 /\ w_call.L > NSamples) =>
        w_result.status = "AssertionError"


\* Python's round() of the exact quotient n/d (d > 0): the nearest integer,
\* a tie going to the even one.
PyRound(n, d) ==
    LET a == IF n >= 0 THEN n ELSE 0 - n
        q == a \div d
        r == a % d
        m == IF 2 * r < d THEN q
             ELSE IF 2 * r > d THEN q + 1
             ELSE IF q % 2 = 0 THEN q ELSE q + 1
    IN  IF n >= 0 THEN m ELSE 0 - m

\* C21: window_data converts window_length and window_step from seconds to
\* sample counts by rounding to the nearest integer: L = round(window_length
\* * fs) and S = round(window_step * fs), for every window_length,
\* window_step and fs (stated for a positive length and a step that is not
\* negative).
LengthsAreRounded ==
    (w_call.fn = "window_data" /\ w_call.window_length.num > 0
        /\ w_call.window_step.num >= 0) =>
        /\ w_call.L = PyRound(w_call.window_length.num * w_call.fs, w_call.window_length.den)
        /\ w_call.S = PyRound(w_call.window_step.num * w_call.fs, w_call.window_step.den)

\* C22: window_data called with a window length of L <= 0 samples fails with
\* an error and returns no windows, for every step (stated for the steps
\* that are not negative) and every data matrix.
NonPositiveLengthFails ==
    (w_call.fn = "window_data" /\ w_call.L <= 0 /\ w_call.window_step.num >= 0) =>
        w_result.status # "ok"

\* C17: windowing copies no sample data: the windows window_data returns
\* are read from the buffer of its data (windows that overlap read the same
\* addresses), and what window_epochs returns holds no sample data of its
\* own either, every window of every epoch reading the buffer of the epochs
\* (stated for the calls with S >= 1 and 1 <= L <= T).
WindowsAliasTheBuffer ==
    /\ (Returned /\ w_call.S >= 1) =>
          \A i \in 0..(w_result.shape[1] - 2), c \in 0..(w_result.shape[2] - 1),
             j \in 0..(w_result.shape[3] - 1 - w_call.S) :
                Addr3(w_result, i, c, j + w_call.S) = Addr3(w_result, i + 1, c, j)
    /\ (e_call # NoCall /\ e_result.status = "ok"
            /\ e_call.L >= 1 /\ e_call.S >= 1 /\ e_call.L <= e_data.shape[3]) =>
          ~e_result.owns_data

\* C25: every window that window_data or _windowed_view returns for L >= 1
\* and S >= 1 lies inside the input: window i starts at sample i*S >= 0 and
\* ends at i*S + L <= T, and each of its samples is read from an address of
\* the buffer, the one of sample i*S + j of the same channel.
WindowsInsideBuffer ==
    (Called /\ w_call.L >= 1 /\ w_call.S >= 1 /\ w_result.status = "ok") =>
        \A i \in 0..(w_result.shape[1] - 1) :
            /\ i * w_call.S >= 0
            /\ i * w_call.S + w_result.shape[3] <= NSamples
            /\ w_result.shape[3] = w_call.L
            /\ \A c \in 0..(w_result.shape[2] - 1), j \in 0..(w_result.shape[3] - 1) :
                  /\ Addr3(w_result, i, c, j) \in DOMAIN w_data.buf
                  /\ Addr3(w_result, i, c, j) = Addr2(w_data, c, i * w_call.S + j)

\* C25 witness: two or more windows were returned and the last one ends at
\* the last sample of the input.
LastWindowEndsAtLastSample ==
    /\ Called
    /\ w_call.L >= 1
    /\ w_call.S >= 1
    /\ w_result.status = "ok"
    /\ w_result.shape[1] >= 2
    /\ (w_result.shape[1] - 1) * w_call.S + w_call.L = NSamples

\* --------------------------------------------------------- cross-validation
NoFile == [file |-> "none"]
EmptyDict == [s \in {} |-> 0]
DictSet(d, key, value) == [s \in DOMAIN d \cup {key} |-> IF s = key THEN value ELSE d[s]]
SeqToSet(q) == {q[i] : i \in DOMAIN q}

\* The subject lists of a database: ids in ascending order.
SubjectLists == {Ascending(S) : S \in SUBSET (1..MaxSubjId) \ {{}}}

\* SubjectKFold(None).split(proc), the leave-one-subject-out topology: one
\* fold per subject, fold k testing subject k on a model trained on all the
\* other subjects (specification, section 4.2).
SubjectKFoldSplit(subjects) ==
    [k \in 1..Len(subjects) |->
        [subject |-> subjects[k],
         test |-> {subjects[k]},
         train |-> SeqToSet(subjects) \ {subjects[k]}]]

\* ai.SVM(...) after svm.fit(train_x, train_y).
FittedSvm(train) == [fitted |-> TRUE, fitted_on |-> train]
NoSvm == [fitted |-> FALSE, fitted_on |-> {}]

\* Python values handed to the pickle helpers: a str or a dict.
StrValue(text) == [kind |-> "str", value |-> text]
DictValue(d) == [kind |-> "dict", value |-> d]

\* self._proc.proc_db_path + AI_MODEL.
ModelPath == StrValue("proc_db_path/ai.model")

\* str(filename): a str is itself, the str of a dict is its repr.
Str(filename) ==
    IF filename.kind = "str" THEN filename
    ELSE [kind |-> "str", value |-> "repr", of |-> filename.value]
\* A file name that is the path of a file of the processed database; the
\* repr of a dict of models may be too long or hold a separator, and then
\* open() raises OSError.
IsPath(name) == name = ModelPath

\* pkl_dump(data, f) and pkl_load(fin): the bytes written hold the object,
\* loading them gives an equal object.
PklDump(data) == [file |-> "pickle", data |-> data.value]
PklLoad(content) == content.data

\* save_pickle_data(filename, data): the file str(filename) gets the pickle
\* of data.
SavePickleData(filename, data) == [name |-> Str(filename), content |-> PklDump(data)]

\* load_pickle_data(filename) of the model file.
LoadPickleData(file) ==
    IF file = NoFile THEN [status |-> "FileNotFoundError", data |-> EmptyDict]
    ELSE [status |-> "ok", data |-> PklLoad(file)]

\* Mutant of ForLoopExhausted: the loop stops after its first fold.
ForLoopStopsAfterFirst(k, folds) == k > 1

\* The for loop over kfold.split(self._proc) has consumed every fold.
ForLoopExhausted(k, folds) == k > Len(folds)

CvStart ==
    /\ cv_subjects \in SubjectLists
    /\ cv_pc = "idle"
    /\ cv_save = FALSE
    /\ cv_folds = <<>>
    /\ cv_k = 1
    /\ cv_seen = <<>>
    /\ ai_model = EmptyDict
    /\ model_file = NoFile
    /\ other_files = {}

CvIdle ==
    /\ cv_subjects = <<1>>
    /\ cv_pc = "idle"
    /\ cv_save = FALSE
    /\ cv_folds = <<>>
    /\ cv_k = 1
    /\ cv_seen = <<>>
    /\ ai_model = EmptyDict
    /\ model_file = NoFile
    /\ other_files = {}

\* _subject_crossvalidate is entered: kfold = SubjectKFold(subj_n_fold_num)
\* with subj_n_fold_num None, ai_model = dict().
SubjectCrossvalidateEnter ==
    /\ cv_pc = "idle"
    /\ \E save_model \in BOOLEAN : cv_save' = save_model
    /\ cv_folds' = SubjectKFoldSplit(cv_subjects)
    /\ cv_k' = 1
    /\ cv_seen' = <<>>
    /\ ai_model' = EmptyDict
    /\ cv_pc' = "loop"
    /\ UNCHANGED <<cv_subjects, model_file, other_files, notCv>>

\* One pass of the loop body: fit on the fold's training data, record the
\* model under the fold's subject, predict on its test data.
SubjectCrossvalidateFold ==
    /\ cv_pc = "loop"
    /\ ~ForLoopExhausted(cv_k, cv_folds)
    /\ LET fold == cv_folds[cv_k]
           svm == FittedSvm(fold.train)
       IN  /\ ai_model' = DictSet(ai_model, fold.subject, svm)
           /\ cv_seen' = Append(cv_seen, fold)
    /\ cv_k' = cv_k + 1
    /\ UNCHANGED <<cv_subjects, cv_pc, cv_save, cv_folds, model_file, other_files, notCv>>

\* The loop is over; if save_model:
\* save_pickle_data(ai_model, self._proc.proc_db_path + AI_MODEL), the file
\* named by the first argument is written, or cannot be opened.
SubjectCrossvalidateReturn ==
    /\ cv_pc = "loop"
    /\ ForLoopExhausted(cv_k, cv_folds)
    /\ IF ~cv_save
       THEN /\ cv_pc' = "done"
            /\ UNCHANGED <<model_file, other_files>>
       ELSE LET written == SavePickleData(DictValue(ai_model), ModelPath)
            IN  \/ /\ cv_pc' = "done"
                   /\ model_file' = IF written.name = ModelPath THEN written.content
                                     ELSE model_file
                   /\ other_files' = IF written.name = ModelPath THEN other_files
                                      ELSE other_files \cup {written}
                \/ /\ ~IsPath(written.name)
                   /\ cv_pc' = "raised"
                   /\ UNCHANGED <<model_file, other_files>>
    /\ UNCHANGED <<cv_subjects, cv_save, cv_folds, cv_k, cv_seen, ai_model, notCv>>

CvNext == SubjectCrossvalidateEnter \/ SubjectCrossvalidateFold \/ SubjectCrossvalidateReturn

\* ------------------------------------------- cross-validation: properties
TestSubjects(folds) == {folds[k].subject : k \in DOMAIN folds}

\* C5: the leave-one-subject-out splitter consumed by _subject_crossvalidate
\* yields one fold per subject; every subject is the test subject of exactly
\* one fold, and no fold trains on its test subject.  With the five subjects
\* 1..5 there are five folds and fold 2 tests subject 2.
LeaveOneSubjectOut ==
    /\ \A k \in DOMAIN cv_seen :
        /\ cv_seen[k].test = {cv_seen[k].subject}
        /\ cv_seen[k].test \cap cv_seen[k].train = {}
        /\ cv_seen[k].test \cup cv_seen[k].train = SeqToSet(cv_subjects)
    /\ \A j, k \in DOMAIN cv_seen : cv_seen[j].subject = cv_seen[k].subject => j = k
    /\ cv_pc = "done" =>
        /\ Len(cv_seen) = Len(cv_subjects)
        /\ TestSubjects(cv_seen) = SeqToSet(cv_subjects)
        /\ cv_subjects = <<1, 2, 3, 4, 5>> =>
            /\ Len(cv_seen) = 5
            /\ cv_seen[2].subject = 2
            /\ 2 \notin cv_seen[2].train

\* C5 witness: the cross-validation of the five subjects 1..5 has returned.
FiveSubjectsCrossvalidated ==
    /\ cv_pc = "done"
    /\ cv_subjects = <<1, 2, 3, 4, 5>>
    /\ Len(cv_seen) = 5

\* --------------------------------------------------------------- balancing
\* np.unique(labels), and for one label the positions lab_ind selects
\* (positions count from 1 here, from 0 in the source).
Unique(labels) == Ascending({labels[i] : i \in DOMAIN labels})
LabInd(labels, label) == {i \in DOMAIN labels : labels[i] = label}

\* The first loop: min_elems starts at len(epochs) and is lowered to the
\* size of every smaller class, the classes taken in np.unique's order.
RECURSIVE MinElemsFrom(_, _, _, _)
MinElemsFrom(min_elems, labels, uniq, k) ==
    IF k > Len(uniq) THEN min_elems
    ELSE LET n == Cardinality(LabInd(labels, uniq[k]))
         IN  MinElemsFrom(IF n < min_elems THEN n ELSE min_elems, labels, uniq, k + 1)
MinElems(epochs, labels) == MinElemsFrom(Len(epochs), labels, Unique(labels), 1)

\* Mutant of ShuffledHead: a class larger than use_elems is kept whole.
ShuffledHeadKeepsAll(ind, use_elems) == {ind}

\* The second loop, for one class: a class larger than use_elems is shuffled
\* (np.random.shuffle: any order) and cut to its first use_elems positions;
\* the set of positions that may be kept.
ShuffledHead(ind, use_elems) ==
    IF Cardinality(ind) > use_elems
    THEN {sel \in SUBSET ind : Cardinality(sel) = use_elems}
    ELSE {ind}

\* The second loop: sel_ind is extended by the kept positions of one class
\* after the other; the sets of positions sel_ind may end up holding.
RECURSIVE SelIndFrom(_, _, _, _)
SelIndFrom(labels, uniq, use_elems, k) ==
    IF k > Len(uniq) THEN {{}}
    ELSE {ind \cup rest : ind \in ShuffledHead(LabInd(labels, uniq[k]), use_elems),
                          rest \in SelIndFrom(labels, uniq, use_elems, k + 1)}

\* The values np.sort(sel_ind) may take.
SelInd(epochs, labels) ==
    LET use_elems == MinElems(epochs, labels)
    IN  {Ascending(sel) : sel \in SelIndFrom(labels, Unique(labels), use_elems, 1)}

\* x[sel_ind] for a one-dimensional x.
Take(x, sel_ind) == [j \in DOMAIN sel_ind |-> x[sel_ind[j]]]

\* Mutant of TakeGroups: the groups are cut to the length of the selection
\* instead of being selected by it.
TakeGroupsHead(groups, sel_ind) == [j \in DOMAIN sel_ind |-> groups[j]]

\* groups[sel_ind].
TakeGroups(groups, sel_ind) == Take(groups, sel_ind)

NoGroups == <<>>
BalanceStart ==
    /\ \E n \in 1..MaxEpochs :
        /\ b_epochs = [i \in 1..n |-> i]
        /\ b_labels \in [1..n -> 1..NumLabels]
        /\ b_groups = [i \in 1..n |-> n + i]
    /\ b_out = NoCall
    /\ b_again = NoCall

BalanceIdle ==
    /\ b_epochs = <<1>>
    /\ b_labels = <<1>>
    /\ b_groups = <<2>>
    /\ b_out = NoCall
    /\ b_again = NoCall

\* balance_epoch_nums(epochs, labels), groups left at None.
BalanceEpochNumsCall ==
    /\ b_out = NoCall
    /\ \E sel_ind \in SelInd(b_epochs, b_labels) :
        b_out' = [fn |-> "balance_epoch_nums", sel_ind |-> sel_ind,
                  epochs |-> Take(b_epochs, sel_ind),
                  labels |-> Take(b_labels, sel_ind),
                  groups |-> NoGroups]
    /\ UNCHANGED <<b_epochs, b_labels, b_groups, b_again, notBalance>>

\* balance_epoch_nums(epochs, labels, groups).
BalanceEpochNumsGroupsCall ==
    /\ b_out = NoCall
    /\ \E sel_ind \in SelInd(b_epochs, b_labels) :
        b_out' = [fn |-> "balance_epoch_nums", sel_ind |-> sel_ind,
                  epochs |-> Take(b_epochs, sel_ind),
                  labels |-> Take(b_labels, sel_ind),
                  groups |-> TakeGroups(b_groups, sel_ind)]
    /\ UNCHANGED <<b_epochs, b_labels, b_groups, b_again, notBalance>>

\* The call is made once more, on the same arguments: np.random.shuffle
\* draws from the global generator, which nothing in balance_epoch_nums
\* seeds, so the order it leaves is again any order.
BalanceEpochNumsAgain ==
    /\ b_out # NoCall
    /\ b_again = NoCall
    /\ \E sel_ind \in SelInd(b_epochs, b_labels) :
        b_again' = [fn |-> "balance_epoch_nums", sel_ind |-> sel_ind,
                    epochs |-> Take(b_epochs, sel_ind),
                    labels |-> Take(b_labels, sel_ind),
                    groups |-> IF b_out.groups = NoGroups THEN NoGroups
                               ELSE TakeGroups(b_groups, sel_ind)]
    /\ UNCHANGED <<b_epochs, b_labels, b_groups, b_out, notBalance>>

BalanceNext == BalanceEpochNumsCall \/ BalanceEpochNumsGroupsCall \/ BalanceEpochNumsAgain

\* --------------------------------------------------- balancing: properties
Balanced == b_out # NoCall
CountOf(labels, label) == Cardinality({i \in DOMAIN labels : labels[i] = label})
LabelsOf(labels) == {labels[i] : i \in DOMAIN labels}
\* m is the smallest per-class count of the given labels.
IsSmallestClassCount(m, labels) ==
    /\ \E label \in LabelsOf(labels) : CountOf(labels, label) = m
    /\ \A label \in LabelsOf(labels) : CountOf(labels, label) >= m

\* C6: balance_epoch_nums returns a selection in which every class has
\* exactly m examples, m being the smallest per-class count before
\* balancing, and never more examples than it was given.
EveryClassAtMinimum ==
    Balanced =>
        /\ \A label \in LabelsOf(b_labels) :
              IsSmallestClassCount(CountOf(b_out.labels, label), b_labels)
        /\ LabelsOf(b_out.labels) \subseteq LabelsOf(b_labels)
        /\ Len(b_out.epochs) = Len(b_out.labels)
        /\ Len(b_out.epochs) <= Len(b_epochs)

\* C6 witness: a call on three classes of different sizes has returned, the
\* larger classes cut down.
UnevenClassesBalanced ==
    /\ Balanced
    /\ Cardinality(LabelsOf(b_labels)) = 3
    /\ \E a, b \in LabelsOf(b_labels) : CountOf(b_labels, a) > CountOf(b_labels, b)
    /\ Len(b_out.epochs) < Len(b_epochs)

\* C19: balance_epoch_nums called with groups returns three arrays of one
\* length selected by one index array: at every output position j the
\* epoch, the label and the group are those of the same input index (the
\* index the epoch at j carries).
GroupsInLockStep ==
    (Balanced /\ b_out.groups # NoGroups) =>
        /\ Len(b_out.epochs) = Len(b_out.sel_ind)
        /\ Len(b_out.labels) = Len(b_out.sel_ind)
        /\ Len(b_out.groups) = Len(b_out.sel_ind)
        /\ \A j \in DOMAIN b_out.sel_ind :
              /\ b_out.sel_ind[j] \in DOMAIN b_epochs
              /\ b_out.epochs[j] = b_epochs[b_out.sel_ind[j]]
              /\ b_out.labels[j] = b_labels[b_out.epochs[j]]
              /\ b_out.groups[j] = b_groups[b_out.epochs[j]]

\* C19 witness: a call with groups has returned a selection that left out
\* an epoch which is not the last one.
GroupsSelectedWithGap ==
    /\ Balanced
    /\ b_out.groups # NoGroups
    /\ Len(b_out.groups) >= 2
    /\ \E j \in DOMAIN b_out.sel_ind : b_out.sel_ind[j] # j

\* C20: the selection is made with a fixed seed: two calls of
\* balance_epoch_nums on the same epochs and labels return the same
\* selected examples.
BalancingIsReproducible ==
    b_again # NoCall =>
        /\ b_again.epochs = b_out.epochs
        /\ b_again.labels = b_out.labels
        /\ b_again.groups = b_out.groups

\* ------------------------------------------------------ feature extraction
\* A set of windows is a sequence of values; the statistics a scaler
\* (StandardScaler, mne Scaler) computes in fit are abstracted to the number
\* of windows and their sum (the mean).
RECURSIVE Sum(_)
Sum(x) == IF x = <<>> THEN 0 ELSE Head(x) + Sum(Tail(x))
NoStats == [n |-> 0, sum |-> 0]
StatsOf(x) == [n |-> Len(x), sum |-> Sum(x)]

\* A pipeline object: its steps, the statistics its scaler holds (NoStats
\* without a scaler or before fit), and two records kept for the properties:
\* the statistics it held after its last fit on training windows, and
\* whether it has produced features for test windows since.
NoObject == [steps |-> <<>>, stats |-> NoStats, train_stats |-> NoStats, test_applied |-> FALSE]
NewPipeline(steps) == [steps |-> steps, stats |-> NoStats, train_stats |-> NoStats,
                       test_applied |-> FALSE]
ScalerSteps == {"Scaler", "StandardScaler"}
HasScaler(obj) == \E k \in DOMAIN obj.steps : obj.steps[k] \in ScalerSteps

\* Pipeline.fit / Pipeline.fit_transform on the windows x of the given role:
\* a scaler step recomputes its statistics from x.
PipelineFit(obj, x, role) ==
    LET stats == IF HasScaler(obj) THEN StatsOf(x) ELSE NoStats
    IN  [obj EXCEPT !.stats = stats,
                    !.train_stats = IF role = "train" THEN stats ELSE @,
                    !.test_applied = IF role = "train" THEN FALSE
                                     ELSE (@ \/ obj.train_stats # NoStats)]

\* Pipeline.transform / Pipeline.predict on the windows x: every step
\* applies what it holds.
PipelineApply(obj, x, role) ==
    [obj EXCEPT !.test_applied = IF role = "test" THEN (@ \/ obj.train_stats # NoStats)
                                 ELSE @]

\* The features a pipeline returns for x: x scaled by the statistics held.
FeaturesOf(obj, x) == [status |-> "ok", x |-> x, scaled_by |-> obj.stats]

FeatureTypes == {"RAW", "USER_PIPELINE", "HUGINES", "AVG_FFT_POWER", "FFT_RANGE",
                 "MULTI_AVG_FFT_POW"}
FftTypes == {"AVG_FFT_POWER", "FFT_RANGE", "MULTI_AVG_FFT_POW"}

\* get_feature_extractor(feature_type, fs, scale, norm, info): the pipeline
\* built, or the error raised.
GetFeatureExtractor(feature_type, fs, scale, norm, info) ==
    LET scale_steps == IF scale THEN <<"to_micro_volt">> ELSE <<>>
        norm_raw == info # None /\ norm
    IN  IF feature_type = "RAW"
        THEN [status |-> "ok",
              pipeline |-> NewPipeline(scale_steps \o <<"identity">>
                                       \o (IF norm_raw THEN <<"Scaler">> ELSE <<>>))]
        ELSE IF feature_type = "HUGINES"
        THEN [status |-> "ok",
              pipeline |-> NewPipeline(scale_steps \o <<"hugines">>
                                       \o (IF norm THEN <<"StandardScaler">> ELSE <<>>))]
        ELSE IF feature_type \in FftTypes
        THEN IF fs = None
             THEN [status |-> "AssertionError", pipeline |-> NoObject]
             ELSE [status |-> "ok",
                   pipeline |-> NewPipeline(scale_steps \o <<"multi_fft">>
                                            \o (IF norm THEN <<"StandardScaler">> ELSE <<>>))]
        ELSE [status |-> "NotImplementedError", pipeline |-> NoObject]

WindowSets == [1..MaxWindows -> 0..1]
RoleData(role) == IF role = "train" THEN f_train ELSE f_test

FeatureStart ==
    /\ f_train \in WindowSets
    /\ f_test \in WindowSets
    /\ f_user \in {NewPipeline(<<"StandardScaler">>), NewPipeline(<<"identity">>)}
    /\ f_clf = NoObject
    /\ f_last = NoCall

FeatureIdle ==
    /\ f_train = <<0>>
    /\ f_test = <<0>>
    /\ f_user = NewPipeline(<<"identity">>)
    /\ f_clf = NoObject
    /\ f_last = NoCall

\* generate_features(x, f_type=FeatureType.USER_PIPELINE, pipeline=...) on
\* the training or on the test windows, with the caller's pipeline object
\* or without one.
GenerateFeaturesUser ==
    \E role \in {"train", "test"}, given \in BOOLEAN :
        /\ IF ~given
           THEN /\ f_last' = [fn |-> "generate_features", f_type |-> "USER_PIPELINE",
                              role |-> role, out |-> [status |-> "AssertionError"]]
                /\ UNCHANGED f_user
           ELSE /\ f_user' = PipelineFit(f_user, RoleData(role), role)
                /\ f_last' = [fn |-> "generate_features", f_type |-> "USER_PIPELINE",
                              role |-> role, out |-> FeaturesOf(f_user', RoleData(role))]
        /\ UNCHANGED <<f_train, f_test, f_clf, notFeature>>

\* generate_features(x, fs, f_type, scale, norm, info) for a built-in
\* feature type: a new extractor is built, fitted on x and dropped.
GenerateFeaturesBuiltin ==
    \E role \in {"train", "test"}, f_type \in FeatureTypes \ {"USER_PIPELINE"},
       fs \in {None, "fs"}, scale \in BOOLEAN, norm \in BOOLEAN, info \in {None, "info"} :
        /\ LET ext == GetFeatureExtractor(f_type, fs, scale, norm, info)
               fitted == PipelineFit(ext.pipeline, RoleData(role), role)
           IN  f_last' = [fn |-> "generate_features", f_type |-> f_type, role |-> role,
                          out |-> IF ext.status = "ok"
                                  THEN FeaturesOf(fitted, RoleData(role))
                                  ELSE [status |-> ext.status]]
        /\ UNCHANGED <<f_train, f_test, f_user, f_clf, notFeature>>

\* train_test_model, one fold: clf = get_classifier(...) is a new pipeline
\* with a norm() step; clf.fit(train_x, train_y).
TrainTestModelFit ==
    /\ f_clf' = PipelineFit(NewPipeline(<<"to_micro_volt", "FFTCalc", "AvgFFTCalc",
                                          "StandardScaler", "SVC">>), f_train, "train")
    /\ f_last' = [fn |-> "clf.fit", role |-> "train", out |-> [status |-> "ok"]]
    /\ UNCHANGED <<f_train, f_test, f_user, notFeature>>

\* train_test_model, the same fold: test_classifier(clf, test_x, test_y,
\* label_encoder) predicts the test windows with the fitted pipeline.
TrainTestModelTest ==
    /\ f_clf # NoObject
    /\ f_last.fn = "clf.fit"
    /\ f_clf' = PipelineApply(f_clf, f_test, "test")
    /\ f_last' = [fn |-> "test_classifier", role |-> "test", out |-> FeaturesOf(f_clf, f_test)]
    /\ UNCHANGED <<f_train, f_test, f_user, notFeature>>

FeatureNext ==
    \/ GenerateFeaturesUser
    \/ GenerateFeaturesBuiltin
    \/ TrainTestModelFit
    \/ TrainTestModelTest

\* ------------------------------------------ feature extraction: properties
\* C7: once a feature extractor has been fitted on training windows,
\* producing features for test windows (through generate_features with a
\* user-supplied pipeline, or through the classifier pipeline of a fold)
\* leaves the statistics recorded at fit time unchanged.
FitStatisticsFrozen ==
    \A obj \in {f_user, f_clf} :
        (obj.train_stats # NoStats /\ obj.test_applied) => obj.stats = obj.train_stats

\* ------------------------------------------------------------ configuration
\* The members of ClassifierType the source names.
ClassifierTypes == {"EEG_NET", "VOTING_SVM", "SVM"}

\* Mutant of ValidateFeatureClassifierPair: a voting SVM is let through with
\* any feature type.
ValidateAnyFeatureWithVotingSvm(feature_type, classifier_type) ==
    IF classifier_type = "EEG_NET"
    THEN [status |-> "ok", feature_type |-> "RAW", classifier_type |-> classifier_type]
    ELSE IF classifier_type = "VOTING_SVM"
    THEN [status |-> "ok", feature_type |-> feature_type, classifier_type |-> classifier_type]
    ELSE [status |-> "ValueError", feature_type |-> None, classifier_type |-> None]

\* validate_feature_classifier_pair(feature_type, classifier_type): the pair
\* returned, or the error raised.
ValidateFeatureClassifierPair(feature_type, classifier_type) ==
    IF classifier_type = "EEG_NET"
    THEN [status |-> "ok", feature_type |-> "RAW", classifier_type |-> classifier_type]
    ELSE IF classifier_type = "VOTING_SVM" /\ feature_type \in FftTypes
    THEN [status |-> "ok", feature_type |-> feature_type, classifier_type |-> classifier_type]
    ELSE [status |-> "ValueError", feature_type |-> None, classifier_type |-> None]

SamplingRates == {None, "fs"}

ConfigStart ==
    /\ v_args \in [feature_type : FeatureTypes, classifier_type : ClassifierTypes,
                    fs : SamplingRates, scale : BOOLEAN, norm : BOOLEAN,
                    info : {None, "info"}]
    /\ v_pair = NoCall
    /\ v_ext = NoCall

ConfigIdle ==
    /\ v_args = [feature_type |-> "RAW", classifier_type |-> "SVM", fs |-> None,
                 scale |-> TRUE, norm |-> FALSE, info |-> None]
    /\ v_pair = NoCall
    /\ v_ext = NoCall

\* A call validate_feature_classifier_pair(feature_type, classifier_type).
ValidateFeatureClassifierPairCall ==
    /\ v_pair = NoCall
    /\ v_pair' = [fn |-> "validate_feature_classifier_pair",
                  out |-> ValidateFeatureClassifierPair(v_args.feature_type,
                                                        v_args.classifier_type)]
    /\ UNCHANGED <<v_args, v_ext, notConfig>>

\* A call get_feature_extractor(feature_type, fs, scale, norm, info).
GetFeatureExtractorCall ==
    /\ v_ext = NoCall
    /\ v_ext' = [fn |-> "get_feature_extractor",
                 out |-> GetFeatureExtractor(v_args.feature_type, v_args.fs, v_args.scale,
                                             v_args.norm, v_args.info)]
    /\ UNCHANGED <<v_args, v_pair, notConfig>>

ConfigNext == ValidateFeatureClassifierPairCall \/ GetFeatureExtractorCall

\* ------------------------------------------------ configuration: properties
Validated == v_pair # NoCall
InRuleTable(feature_type, classifier_type) ==
    \/ classifier_type = "EEG_NET" /\ feature_type = "RAW"
    \/ classifier_type = "VOTING_SVM" /\ feature_type \in FftTypes

\* C12 (as stated): validate_feature_classifier_pair accepts a pair exactly
\* when it is in the rule table (EEG_NET with RAW, VOTING_SVM with a
\* frequency-domain feature) and raises for every other pair.
OnlyRuleTablePairsAccepted ==
    Validated =>
        IF InRuleTable(v_args.feature_type, v_args.classifier_type)
        THEN /\ v_pair.out.status = "ok"
             /\ v_pair.out.feature_type = v_args.feature_type
             /\ v_pair.out.classifier_type = v_args.classifier_type
        ELSE v_pair.out.status = "ValueError"

\* C12 (amended): EEG_NET is accepted with whatever feature type and the
\* pair returned carries RAW in its place; VOTING_SVM is accepted exactly
\* with a frequency-domain feature, the pair returned unchanged; every other
\* pair raises ValueError; nothing is fitted or built by the call.
EegNetCoercedToRaw ==
    /\ Validated =>
          /\ v_args.classifier_type = "EEG_NET" =>
                v_pair.out = [status |-> "ok", feature_type |-> "RAW",
                              classifier_type |-> "EEG_NET"]
          /\ (v_args.classifier_type = "VOTING_SVM" /\ v_args.feature_type \in FftTypes) =>
                v_pair.out = [status |-> "ok", feature_type |-> v_args.feature_type,
                              classifier_type |-> "VOTING_SVM"]
          /\ (v_args.classifier_type = "VOTING_SVM" /\ v_args.feature_type \notin FftTypes) =>
                v_pair.out.status = "ValueError"
          /\ v_args.classifier_type \notin {"EEG_NET", "VOTING_SVM"} =>
                v_pair.out.status = "ValueError"
    /\ Validated => (f_clf = NoObject /\ v_args.feature_type \in FeatureTypes)

\* C12 witness: EEG_NET was validated with a frequency-domain feature and
\* the pair came back with RAW.
EegNetWithFftValidated ==
    /\ Validated
    /\ v_args.classifier_type = "EEG_NET"
    /\ v_args.feature_type = "AVG_FFT_POWER"
    /\ v_pair.out.status = "ok"
    /\ v_pair.out.feature_type = "RAW"

\* C18: when saving is requested ('trainSVM': save_model), the run ends
\* with the model file holding the pickled map, one entry per fold, keyed by
\* the fold's subject and holding the model fitted on the fold's training
\* data; load_pickle_data of that file, as online_processing does it, gives
\* the same map back.
PersistedMapRoundTrips ==
    (cv_save /\ cv_pc \in {"done", "raised"}) =>
        /\ cv_pc = "done"
        /\ LoadPickleData(model_file).status = "ok"
        /\ LoadPickleData(model_file).data = ai_model
        /\ DOMAIN ai_model = TestSubjects(cv_seen)
        /\ \A k \in DOMAIN cv_seen :
              ai_model[cv_seen[k].subject] = FittedSvm(cv_seen[k].train)

\* ------------------------------------------------------------------ test_db
\* The accuracies train_test_model returns for a subject, in percent, one
\* per fold.
AccuracyLists == {<<50, 100>>, <<100, 100>>}
Mean(x) == Sum(x) \div Len(x)
\* np.std of a list of two values: half their distance.
Std(x) == (Max(x[1], x[2]) - Min(x[1], x[2])) \div Len(x)

EmptyRes == [Subject |-> <<>>, AccuracyList |-> <<>>, StdOfAvgAcc |-> <<>>, AvgAcc |-> <<>>]
ResAppend(res, subj, cross_acc) ==
    [Subject |-> Append(res.Subject, subj),
     AccuracyList |-> Append(res.AccuracyList, cross_acc),
     StdOfAvgAcc |-> Append(res.StdOfAvgAcc, Std(cross_acc)),
     AvgAcc |-> Append(res.AvgAcc, Mean(cross_acc))]

\* Mutant of ToCsv: only the row of the subject just completed is written.
ToCsvLastRowOnly(res) ==
    [exists |-> TRUE,
     rows |-> <<<<res.Subject[Len(res.Subject)], res.AccuracyList[Len(res.Subject)],
                  res.StdOfAvgAcc[Len(res.Subject)], res.AvgAcc[Len(res.Subject)]>>>>]

\* pd.DataFrame(res).to_csv(log_file, ...): the file is written anew, one
\* row per position of the columns.
ToCsv(res) ==
    [exists |-> TRUE,
     rows |-> [j \in 1..Len(res.Subject) |->
                  <<res.Subject[j], res.AccuracyList[j], res.StdOfAvgAcc[j], res.AvgAcc[j]>>]]

NoLog == [exists |-> FALSE, rows |-> <<>>]
\* The log an earlier call left after completing subject 1.
EarlierLog == ToCsv(ResAppend(EmptyRes, 1, <<100, 100>>))

TestDbStart ==
    /\ t_pc = "idle"
    /\ t_subjects \in SubjectLists
    /\ t_cp \in 0..MaxSubjId
    /\ t_k = 1
    /\ t_res = EmptyRes
    /\ t_log \in {NoLog, EarlierLog}
    /\ t_completed = <<>>
    /\ t_error = None

TestDbIdle ==
    /\ t_pc = "idle"
    /\ t_subjects = <<1>>
    /\ t_cp = 0
    /\ t_k = 1
    /\ t_res = EmptyRes
    /\ t_log = NoLog
    /\ t_completed = <<>>
    /\ t_error = None

\* Lines 238-248: the loader is set up, res gets its four empty columns.
TestDbEnter ==
    /\ t_pc = "idle"
    /\ t_pc' = "loop"
    /\ t_res' = EmptyRes
    /\ t_k' = 1
    /\ UNCHANGED <<t_subjects, t_cp, t_log, t_completed, t_error, notTestDb>>

\* Lines 250-252: a subject below the checkpoint is passed over.
TestDbSkip ==
    /\ t_pc = "loop"
    /\ t_k <= Len(t_subjects)
    /\ t_subjects[t_k] < t_cp
    /\ t_k' = t_k + 1
    /\ UNCHANGED <<t_pc, t_subjects, t_cp, t_res, t_log, t_completed, t_error, notTestDb>>

\* Lines 253-308: the subject is loaded, windowed and cross-validated, its
\* row appended to the columns of res and the log file written.
TestDbSubjectCompletes ==
    /\ t_pc = "loop"
    /\ t_k <= Len(t_subjects)
    /\ t_subjects[t_k] >= t_cp
    /\ \E cross_acc \in AccuracyLists :
        /\ t_res' = ResAppend(t_res, t_subjects[t_k], cross_acc)
        /\ t_completed' = Append(t_completed, [subj |-> t_subjects[t_k], acc |-> cross_acc])
    /\ t_log' = ToCsv(t_res')
    /\ t_k' = t_k + 1
    /\ UNCHANGED <<t_pc, t_subjects, t_cp, t_error, notTestDb>>

\* Lines 253-303: a step of the subject's processing raises (a file that
\* cannot be read, a fold that cannot be fitted); nothing catches it.
TestDbSubjectRaises ==
    /\ t_pc = "loop"
    /\ t_k <= Len(t_subjects)
    /\ t_subjects[t_k] >= t_cp
    /\ t_pc' = "raised"
    /\ t_error' = "Exception"
    /\ UNCHANGED <<t_subjects, t_cp, t_k, t_res, t_log, t_completed, notTestDb>>

\* The for loop is exhausted: test_db returns.
TestDbReturn ==
    /\ t_pc = "loop"
    /\ t_k > Len(t_subjects)
    /\ t_pc' = "returned"
    /\ UNCHANGED <<t_subjects, t_cp, t_k, t_res, t_log, t_completed, t_error, notTestDb>>

TestDbNext ==
    \/ TestDbEnter
    \/ TestDbSkip
    \/ TestDbSubjectCompletes
    \/ TestDbSubjectRaises
    \/ TestDbReturn

\* ------------------------------------------------------ test_db: properties
\* The row (Subject, Accuracy list, Std of Avg. Acc, Avg. Acc) of a
\* completed subject.
RowOf(done) == <<done.subj, done.acc, Std(done.acc), Mean(done.acc)>>

\* C16: once a subject has completed, the log file holds exactly one row
\* for each subject completed so far by the call, in processing order; the
\* file changes only when a subject completes, so an error in a later
\* subject leaves the rows written before it as they were.
LogHoldsCompletedSubjects ==
    /\ [](t_completed # <<>> =>
            /\ t_log.exists
            /\ t_log.rows = [j \in 1..Len(t_completed) |-> RowOf(t_completed[j])]
            /\ \A i, j \in 1..Len(t_completed) :
                  i # j => t_completed[i].subj # t_completed[j].subj)
    /\ [][t_log' # t_log => Len(t_completed') = Len(t_completed) + 1]_vars
    /\ [][t_pc' = "raised" => t_log' = t_log]_vars

\* C16 witness: two subjects completed, the third raised, the log holds the
\* two rows.
LogKeptAfterLaterError ==
    /\ t_pc = "raised"
    /\ Len(t_completed) = 2
    /\ Len(t_log.rows) = 2
    /\ t_log.rows[2] = RowOf(t_completed[2])

\* C30: when test_db is resumed from a checkpoint subject with the log file
\* of an earlier run, every row of the file that belongs to a subject below
\* the checkpoint is still in the file after each step of the resumed run.
ResumeKeepsEarlierRows ==
    [][\A j \in DOMAIN t_log.rows :
          t_log.rows[j][1] < t_cp =>
              \E i \in DOMAIN t_log'.rows : t_log'.rows[i] = t_log.rows[j]]_vars

\* ------------------------------------------------------- online processing
\* A pickled model map of the given subjects, as online_processing expects
\* to find it in the model file.
SavedModels(subjects) ==
    [file |-> "pickle",
     data |-> [s \in SeqToSet(subjects) |-> FittedSvm(SeqToSet(subjects) \ {s})]]

DbNames == {"physionet", "pilot", "other"}
Features == {"avg_column", "fft_power"}
Labels == {"rest", "left hand"}

\* self._proc after _init_db_processor(db_name): a processor is created if
\* there is none, then configured for a supported database.
InitDbProcessor(proc, db_name) ==
    IF proc = None
    THEN IF db_name \in {"physionet", "pilot"} THEN db_name ELSE "unconfigured"
    ELSE proc
InitDbProcessorRaises(proc, db_name) ==
    proc = None /\ db_name \notin {"physionet", "pilot"}

\* Mutant of LookupModel: a subject without an entry gets an unfitted model
\* (as ai_model.get(subject, default) would give).
LookupModelOrDefault(models, subject) ==
    IF subject \in DOMAIN models
    THEN [status |-> "ok", svm |-> models[subject]]
    ELSE [status |-> "ok", svm |-> NoSvm]

\* svm = ai_model[subject]: the subject's model, or KeyError.
LookupModel(models, subject) ==
    IF subject \in DOMAIN models
    THEN [status |-> "ok", svm |-> models[subject]]
    ELSE [status |-> "KeyError", svm |-> NoSvm]

\* Times are counted in microseconds; sleep_time = 1 / dsp.fs.
SleepTime(fs) == 1000000 \div fs

\* Mutant of SleepDuration: the difference is not clamped at zero.
SleepDurationUnclamped(sleep_time, elapsed) == sleep_time - elapsed

\* max(0, sleep_time - (time.time() - t)).
SleepDuration(sleep_time, elapsed) == Max(0, sleep_time - elapsed)

\* Mutant of LoopCondition: the liveness of the data sender is not looked at.
LoopConditionIgnoresSender(data_sender, alive) == TRUE

\* Mutant of LoopCondition: a run without a data sender is not kept going.
LoopConditionNeedsSender(data_sender, alive) == data_sender # None /\ alive

\* The loop condition: data_sender is None or data_sender.is_alive().
LoopCondition(data_sender, alive) == data_sender = None \/ alive

\* np.shape(data) of an acquired window: its number of axes and, with two
\* axes, its number of samples.
WindowShapes(fs, window_length) ==
    LET k == SecToSamples(window_length, fs)
    IN  {[ndim |-> 1, n |-> 0]} \cup {[ndim |-> 2, n |-> n] : n \in {0, k - 1, k, k + 1}}

\* The test of line 115, negated: len(sh) >= 2 and sh[1] / dsp.fs >=
\* self._window_length.
Sufficient(sh, fs, window_length) ==
    sh.ndim >= 2 /\ sh.n * window_length.den >= window_length.num * fs

NoData == [ndim |-> 0, n |-> 0]
NoTiming == [elapsed |-> 0, slept |-> 0, valid |-> FALSE]
ElapsedTimes == {0, 4000, 6250, 8000}

OnlineStart ==
    /\ o_pc = "idle"
    /\ o_args \in [db_name : DbNames, subject : {1, 3}, feature : Features,
                   get_real_labels : BOOLEAN, data_sender : {None, "thread"}]
    /\ o_proc = None
    /\ o_svm = NoSvm
    /\ o_dsp \in [fs : {125, 160, 500}, window_length : {[num |-> 1, den |-> 2]}]
    /\ o_alive = TRUE
    /\ o_stop = FALSE
    /\ o_data = NoData
    /\ o_label = None
    /\ y_preds = <<>>
    /\ y_real = <<>>
    /\ o_timing = NoTiming
    /\ o_count = [sufficient |-> 0, started |-> 0]
    /\ o_error = None

OnlineIdle ==
    /\ o_pc = "idle"
    /\ o_args = [db_name |-> "pilot", subject |-> 1, feature |-> "avg_column",
                 get_real_labels |-> FALSE, data_sender |-> None]
    /\ o_proc = None
    /\ o_svm = NoSvm
    /\ o_dsp = [fs |-> 160, window_length |-> [num |-> 1, den |-> 2]]
    /\ o_alive = TRUE
    /\ o_stop = FALSE
    /\ o_data = NoData
    /\ o_label = None
    /\ y_preds = <<>>
    /\ y_real = <<>>
    /\ o_timing = NoTiming
    /\ o_count = [sufficient |-> 0, started |-> 0]
    /\ o_error = None

\* Lines 94-104: the processor is set up, the model map loaded, the
\* subject's model looked up, the recording started, the lists emptied.
OnlineEnter ==
    /\ o_pc = "idle"
    /\ o_proc' = InitDbProcessor(o_proc, o_args.db_name)
    /\ IF InitDbProcessorRaises(o_proc, o_args.db_name)
       THEN /\ o_pc' = "raised"
            /\ o_error' = "NotImplementedError"
            /\ UNCHANGED o_svm
       ELSE IF LoadPickleData(model_file).status # "ok"
       THEN /\ o_pc' = "raised"
            /\ o_error' = "FileNotFoundError"
            /\ UNCHANGED o_svm
       ELSE IF LookupModel(LoadPickleData(model_file).data, o_args.subject).status # "ok"
       THEN /\ o_pc' = "raised"
            /\ o_error' = LookupModel(LoadPickleData(model_file).data, o_args.subject).status
            /\ UNCHANGED o_svm
       ELSE /\ o_pc' = "loop"
            /\ o_svm' = LookupModel(LoadPickleData(model_file).data, o_args.subject).svm
            /\ UNCHANGED o_error
    /\ y_preds' = <<>>
    /\ y_real' = <<>>
    /\ o_label' = None
    /\ UNCHANGED <<o_args, o_dsp, o_alive, o_stop, o_data, o_timing, o_count,
                   model_file, notOnline>>

\* Line 106: the loop condition is evaluated; line 107 takes the time, or
\* line 133 returns.
OnlineLoopTest ==
    /\ o_pc = "loop"
    /\ o_pc' = IF LoopCondition(o_args.data_sender, o_alive) THEN "acquire" ELSE "returned"
    /\ o_timing' = NoTiming
    /\ UNCHANGED <<o_args, o_proc, o_svm, o_dsp, o_alive, o_stop, o_data, o_label,
                   y_preds, y_real, o_count, o_error, model_file, notOnline>>

\* Lines 109-124: a window is acquired; too small a window ends the
\* iteration (continue), a feature other than 'avg_column' raises, otherwise
\* the window is averaged and handed to the model.
OnlineAcquire ==
    /\ o_pc = "acquire"
    /\ \E sh \in WindowShapes(o_dsp.fs, o_dsp.window_length), label \in Labels :
        /\ Sufficient(sh, o_dsp.fs, o_dsp.window_length) => o_count.sufficient < MaxPreds
        /\ o_label' = IF o_args.get_real_labels THEN label ELSE o_label
        /\ IF ~Sufficient(sh, o_dsp.fs, o_dsp.window_length)
           THEN /\ o_pc' = "loop"
                /\ o_data' = sh
                /\ UNCHANGED <<o_count, o_error>>
           ELSE IF o_args.feature = "avg_column"
           THEN /\ o_pc' = "predict"
                /\ o_data' = sh
                /\ o_count' = [sufficient |-> o_count.sufficient + 1,
                               started |-> o_count.started + 1]
                /\ UNCHANGED o_error
           ELSE /\ o_pc' = "raised"
                /\ o_error' = "NotImplementedError"
                /\ o_data' = sh
                /\ o_count' = [o_count EXCEPT !.sufficient = @ + 1]
    /\ UNCHANGED <<o_args, o_proc, o_svm, o_dsp, o_alive, o_stop, y_preds, y_real,
                   o_timing, model_file, notOnline>>

\* Lines 109-112: dsp.get_eeg_window raises (the stream is lost for a
\* moment); nothing in online_processing catches it, the call ends with it.
OnlineAcquireRaises ==
    /\ o_pc = "acquire"
    /\ o_pc' = "raised"
    /\ o_error' = "LostError"
    /\ UNCHANGED <<o_args, o_proc, o_svm, o_dsp, o_alive, o_stop, o_data, o_label,
                   y_preds, y_real, o_timing, o_count, model_file, notOnline>>

\* Lines 126-129: y_pred = svm.predict(data); both lists are appended to.
OnlinePredict ==
    /\ o_pc = "predict"
    /\ \E y_pred \in Labels : y_preds' = Append(y_preds, y_pred)
    /\ y_real' = Append(y_real, o_label)
    /\ o_data' = NoData
    /\ o_pc' = "sleep"
    /\ UNCHANGED <<o_args, o_proc, o_svm, o_dsp, o_alive, o_stop, o_label,
                   o_timing, o_count, o_error, model_file, notOnline>>

\* Line 131: the time since t is taken and the rest of the period slept.
OnlineSleep ==
    /\ o_pc = "sleep"
    /\ \E elapsed \in ElapsedTimes :
        o_timing' = [elapsed |-> elapsed,
                     slept |-> SleepDuration(SleepTime(o_dsp.fs), elapsed),
                     valid |-> TRUE]
    /\ o_pc' = "loop"
    /\ UNCHANGED <<o_args, o_proc, o_svm, o_dsp, o_alive, o_stop, o_data, o_label,
                   y_preds, y_real, o_count, o_error, model_file, notOnline>>

\* The data sender thread ends.
DataSenderEnds ==
    /\ o_args.data_sender # None
    /\ o_alive
    /\ o_alive' = FALSE
    /\ UNCHANGED <<o_pc, o_args, o_proc, o_svm, o_dsp, o_stop, o_data, o_label,
                   y_preds, y_real, o_timing, o_count, o_error, model_file, notOnline>>

\* The caller wants the run to stop; online_processing takes no argument
\* through which it could be told.
CallerAsksToStop ==
    /\ ~o_stop
    /\ o_stop' = TRUE
    /\ UNCHANGED <<o_pc, o_args, o_proc, o_svm, o_dsp, o_alive, o_data, o_label,
                   y_preds, y_real, o_timing, o_count, o_error, model_file, notOnline>>

OnlineStep ==
    OnlineLoopTest \/ OnlineAcquire \/ OnlineAcquireRaises \/ OnlinePredict \/ OnlineSleep

OnlineNext ==
    \/ OnlineEnter
    \/ OnlineLoopTest
    \/ OnlineAcquire
    \/ OnlineAcquireRaises
    \/ OnlinePredict
    \/ OnlineSleep
    \/ DataSenderEnds
    \/ CallerAsksToStop

\* --------------------------------------------- online processing: properties
InLoop == o_pc \in {"loop", "acquire", "predict", "sleep"}
Exited == o_pc \in {"returned", "raised"}
SenderGone == o_args.data_sender # None /\ ~o_alive

\* C8: an iteration with an insufficient window appends nothing and raises
\* nothing, an iteration with a sufficient window appends exactly one
\* prediction and one real label: whenever the loop is at its boundary or
\* the call has ended, len(y_preds) = len(y_real) = the number of iterations
\* that acquired a sufficient window.
OnePredictionPerSufficientWindow ==
    (o_pc \in {"loop", "returned", "raised"}) =>
        /\ Len(y_preds) = o_count.sufficient
        /\ Len(y_real) = o_count.sufficient

\* C9: after a processed iteration the loop sleeps max(0, 1/fs - elapsed),
\* never a negative time; at fs = 160 Hz an iteration of 4 ms is followed by
\* a sleep of 2.25 ms and one of 8 ms by no sleep (times in microseconds).
SleepIsClampedRemainder ==
    /\ o_pc = "sleep" => Len(y_preds) = o_count.started
    /\ o_timing.valid =>
        /\ o_timing.slept >= 0
        /\ o_timing.elapsed * o_dsp.fs <= 1000000 =>
              o_timing.slept * o_dsp.fs = 1000000 - o_timing.elapsed * o_dsp.fs
        /\ o_timing.elapsed * o_dsp.fs >= 1000000 => o_timing.slept = 0
        /\ (o_dsp.fs = 160 /\ o_timing.elapsed = 4000) => o_timing.slept = 2250
        /\ (o_dsp.fs = 160 /\ o_timing.elapsed = 8000) => o_timing.slept = 0

\* C9 witness: at 160 Hz an iteration that took 4 ms has slept 2.25 ms.
SleptAfterFourMilliseconds ==
    /\ o_timing.valid
    /\ o_dsp.fs = 160
    /\ o_timing.elapsed = 4000
    /\ o_timing.slept = 2250
    /\ Len(y_preds) >= 1

\* The call returns only from the loop condition, found false; and when it
\* has returned every inference that was started has been recorded.
ReturnsOnlyAtLoopTest ==
    [][(o_pc # "returned" /\ o_pc' = "returned") => (o_pc = "loop" /\ SenderGone)]_vars
NoAbandonedInference ==
    [](o_pc = "returned" =>
          (Len(y_preds) = o_count.started /\ Len(y_real) = o_count.started))

\* C10 (as stated): the loop terminates once data_sender.is_alive() is false
\* or the caller's stop signal has fired; liveness is checked once per
\* iteration, nothing preempts an iteration, and an inference that was
\* started is recorded before the call returns.
LoopEndsOnSenderDeathOrStop ==
    /\ (InLoop /\ (SenderGone \/ o_stop)) ~> Exited
    /\ ReturnsOnlyAtLoopTest
    /\ NoAbandonedInference

\* C10 (amended): the loop terminates once data_sender.is_alive() is false,
\* a data sender having been supplied (nothing else stops it); liveness is
\* checked once per iteration, nothing preempts an iteration, and an
\* inference that was started is recorded before the call returns.
LoopEndsOnSenderDeath ==
    /\ (InLoop /\ SenderGone) ~> Exited
    /\ ReturnsOnlyAtLoopTest
    /\ NoAbandonedInference

\* C10 witness: the data sender has ended and the call has returned with a
\* prediction recorded.
ReturnedAfterSenderEnded ==
    /\ o_pc = "returned"
    /\ SenderGone
    /\ Len(y_preds) >= 1
    /\ Len(y_preds) = o_count.started

UnknownSubjectFailsBeforePrediction ==
    (/\ o_pc # "idle"
     /\ ~InitDbProcessorRaises(None, o_args.db_name)
     /\ model_file # NoFile
     /\ o_args.subject \notin DOMAIN model_file.data) =>
        /\ o_pc = "raised"
        /\ o_error = "KeyError"
        /\ o_svm = NoSvm
        /\ y_preds = <<>> /\ y_real = <<>>
        /\ o_count = [sufficient |-> 0, started |-> 0]
        /\ model_file = SavedModels(cv_subjects)
        /\ o_proc = o_args.db_name

\* C13 witness: the call for subject 3, absent from the map of subjects 1
\* and 2, has ended with KeyError.
UnknownSubjectRejected ==
    /\ o_pc = "raised"
    /\ o_error = "KeyError"
    /\ o_args.subject = 3
    /\ DOMAIN model_file.data = {1, 2}

\* C23: the online loop windows as the offline path does: with L =
\* int(window_length * fs), the sample count of window_data, a window is
\* turned away as too short only if it has fewer than L samples, and a
\* window handed to the model has exactly L samples.
OnlineWindowIsOfflineWindow ==
    LET L == SecToSamples(o_dsp.window_length, o_dsp.fs)
    IN  /\ (o_pc = "loop" /\ o_data # NoData) => (o_data.ndim < 2 \/ o_data.n < L)
        /\ o_pc = "predict" => (o_data.ndim = 2 /\ o_data.n = L)

ConfigurationErrors == {"NotImplementedError", "FileNotFoundError", "KeyError"}

\* C14: an error raised inside one iteration of the loop (the acquisition
\* call failing for a moment) is logged and the loop goes on, the
\* predictions collected so far kept: the call is ended by an exception only
\* if that exception is a configuration error.
IterationErrorsDoNotEndTheLoop ==
    o_pc = "raised" => o_error \in ConfigurationErrors

\* C15: feature configuration errors are raised at construction, before a
\* window is acquired: get_feature_extractor raises for a feature type it
\* does not build and for a spectral type without a sampling rate, and
\* online_processing called with a feature it does not support has ended
\* with the error before its loop is entered.
FeatureErrorsRaisedAtConstruction ==
    /\ v_ext # NoCall =>
          /\ v_args.feature_type = "USER_PIPELINE" => v_ext.out.status = "NotImplementedError"
          /\ (v_args.feature_type \in FftTypes /\ v_args.fs = None) =>
                v_ext.out.status = "AssertionError"
    /\ (o_pc # "idle" /\ o_args.feature # "avg_column") =>
          /\ o_pc = "raised"
          /\ o_data = NoData
          /\ o_count.sufficient = 0

\* ------------------------------------------------------------- process_run
\* What func does when it is called: it returns a value, raises an
\* Exception, or ends the interpreter (sys.exit raises SystemExit, which is
\* not an Exception).
Funcs ==
    {[kind |-> "returns", value |-> v] : v \in 1..MaxValue}
        \cup {[kind |-> "raises", exc |-> e] : e \in {"ValueError", "KeyError"}}
        \cup {[kind |-> "exits", exc |-> "SystemExit"]}

NoAns == [type |-> "none"]
Value(v) == [type |-> "value", value |-> v]
Exc(ee) == [type |-> "exception", ee |-> ee]

\* _ExceptionWrapper(e): the exception and the traceback of sys.exc_info().
ExceptionWrapper(ee) == [type |-> "_ExceptionWrapper", ee |-> ee, tb |-> "traceback"]

\* The feeder thread of the queue pickles the object; pickle refuses a
\* traceback object.
Picklable(obj) == obj.type = "value"

\* queue.put(obj): the object is handed to the feeder thread, which sends
\* its pickle or, when it cannot be pickled, reports the error and drops it.
QueuePut(q, obj) == IF Picklable(obj) THEN Append(q, obj) ELSE q

notProcess == <<wvars, cvvars, bvars, fvars, ovars, vvars, tvars, evars, svars, xvars, kvars>>

ProcessStart ==
    /\ p_pc = "idle"
    /\ p_func = NoCall
    /\ p_ans = NoAns
    /\ p_out = NoAns
    /\ p_joined = FALSE
    /\ p_runs = 0
    /\ c_pc = "none"
    /\ queue = <<>>

ProcessIdle == ProcessStart

\* process_run(func, debug=True): func is called in the caller's process.
ProcessRunDebug ==
    /\ p_pc \in {"idle", "returned", "raised"}
    /\ p_runs < MaxProcessRuns
    /\ \E func \in Funcs :
          /\ p_func' = func
          /\ p_ans' = IF func.kind = "returns" THEN Value(func.value) ELSE NoAns
          /\ p_pc' = IF func.kind = "returns" THEN "returned" ELSE "raised"
          /\ p_out' = IF func.kind = "returns" THEN Value(func.value) ELSE Exc(func.exc)
    /\ p_runs' = p_runs + 1
    /\ p_joined' = FALSE
    /\ c_pc' = "none"
    /\ queue' = <<>>
    /\ UNCHANGED notProcess

\* process_run(func, debug=False) up to queue.get(): a new queue, the child
\* process is started.
ProcessRunStart ==
    /\ p_pc \in {"idle", "returned", "raised"}
    /\ p_runs < MaxProcessRuns
    /\ \E func \in Funcs : p_func' = func
    /\ p_runs' = p_runs + 1
    /\ p_ans' = NoAns
    /\ p_out' = NoAns
    /\ p_joined' = FALSE
    /\ queue' = <<>>
    /\ c_pc' = "running"
    /\ p_pc' = "get"
    /\ UNCHANGED notProcess

\* __wrapper_func in the child: func is called, its value or the wrapper of
\* its Exception is put on the queue; SystemExit is not caught and the put
\* is not reached.
WrapperFunc ==
    /\ c_pc = "running"
    /\ queue' = IF p_func.kind = "returns" THEN QueuePut(queue, Value(p_func.value))
                ELSE IF p_func.kind = "raises"
                THEN QueuePut(queue, ExceptionWrapper(p_func.exc))
                ELSE queue
    /\ c_pc' = "finished"
    /\ UNCHANGED <<p_pc, p_func, p_ans, p_out, p_joined, p_runs, notProcess>>

\* The child process ends after its target has ended.
ChildExits ==
    /\ c_pc = "finished"
    /\ c_pc' = "exited"
    /\ UNCHANGED <<p_pc, p_func, p_ans, p_out, p_joined, p_runs, queue, notProcess>>

\* The child process is killed or crashes while func runs.
ChildCrashes ==
    /\ c_pc = "running"
    /\ c_pc' = "exited"
    /\ UNCHANGED <<p_pc, p_func, p_ans, p_out, p_joined, p_runs, queue, notProcess>>

\* ans = queue.get(): blocks until the queue delivers an item.
QueueGet ==
    /\ p_pc = "get"
    /\ queue # <<>>
    /\ p_ans' = Head(queue)
    /\ queue' = Tail(queue)
    /\ p_pc' = "join"
    /\ UNCHANGED <<p_func, p_out, p_joined, p_runs, c_pc, notProcess>>

\* p.join() returns when the child has ended; then the wrapper re-raises
\* its exception, anything else is returned.
JoinAndReturn ==
    /\ p_pc = "join"
    /\ c_pc = "exited"
    /\ p_joined' = TRUE
    /\ IF p_ans.type = "_ExceptionWrapper"
       THEN /\ p_pc' = "raised"
            /\ p_out' = Exc(p_ans.ee)
       ELSE /\ p_pc' = "returned"
            /\ p_out' = p_ans
    /\ UNCHANGED <<p_func, p_ans, p_runs, c_pc, queue, notProcess>>

\* The steps the two processes take by themselves.
ProcessStep == WrapperFunc \/ ChildExits \/ QueueGet \/ JoinAndReturn

ProcessNext ==
    \/ ProcessRunDebug
    \/ ProcessRunStart
    \/ WrapperFunc
    \/ ChildExits
    \/ ChildCrashes
    \/ QueueGet
    \/ JoinAndReturn

\* ------------------------------------------------- process_run: properties
\* C28: process_run with debug=False comes back to its caller whenever the
\* child process ends: it returns func's value if func returned, raises
\* func's exception if func raised, the child has been joined by then, and
\* the parent does not stay at queue.get() for ever, also when the child
\* ends without putting a result.
ProcessRunComesBack ==
    /\ [](p_pc = "returned" => (p_func.kind = "returns" /\ p_out = Value(p_func.value)))
    /\ []((p_pc \in {"returned", "raised"} /\ c_pc # "none") => p_joined)
    /\ (p_pc = "get") ~> (p_pc \in {"returned", "raised"})
    /\ (p_pc = "get" /\ p_func.kind = "raises" /\ c_pc = "finished")
           ~> (p_pc = "raised" /\ p_out = Exc(p_func.exc))

\* ------------------------------------------------------------- experiments
TestTypes == {"NO_TEST", "BAND_COMB", "NORM_SINGLE", "NORM_MULTI", "FFT_SINGLE", "FFT_MULTI"}

\* get_classifier(fs, fft_ranges, norm, method): the pipeline built, by the
\* function that builds it and the arguments that function is given.
GetClassifier(test, fs, fft_ranges, norm, method) ==
    IF test = "NO_TEST"
    THEN [built_by |-> "new_multi_svm", fs |-> fs, fft_ranges |-> fft_ranges,
          norm |-> norm, method |-> method]
    ELSE IF test = "BAND_COMB"
    THEN [built_by |-> "band_comb_multi_svm", fs |-> fs, fft_ranges |-> fft_ranges,
          norm |-> None, method |-> None]
    ELSE IF test = "NORM_SINGLE"
    THEN [built_by |-> "norm_test_svm", fs |-> fs, fft_ranges |-> None,
          norm |-> norm, method |-> None]
    ELSE IF test = "NORM_MULTI"
    THEN [built_by |-> "norm_test_multi_svm", fs |-> fs, fft_ranges |-> None,
          norm |-> norm, method |-> None]
    ELSE IF test = "FFT_SINGLE"
    THEN [built_by |-> "fft_test_svm", fs |-> fs, fft_ranges |-> None,
          norm |-> None, method |-> method]
    ELSE IF test = "FFT_MULTI"
    THEN [built_by |-> "fft_test_multi_svm", fs |-> fs, fft_ranges |-> None,
          norm |-> None, method |-> method]
    ELSE [built_by |-> "NotImplementedError", fs |-> fs, fft_ranges |-> None,
          norm |-> None, method |-> None]

\* The classifiers the test_db calls of one experiment function build while
\* TEST has the given value.
BuiltWith(test, norm, method) == GetClassifier(test, "fs", "fft_ranges", norm, method)

notExperiment == <<wvars, cvvars, bvars, fvars, ovars, vvars, tvars, evars, svars, pvars, kvars>>

ExperimentStart ==
    /\ TEST = "NO_TEST"
    /\ x_last = NoCall
    /\ x_calls = <<>>

ExperimentIdle == ExperimentStart

\* An experiment function has run: its name, the classifiers its test_db
\* calls built, and whether a test_db call let an exception through.
Ran(fn, built, raised) == [fn |-> fn, built |-> built, raised |-> raised]

\* multi_svm_test(db_name): TEST is not assigned.
MultiSvmTest ==
    /\ Len(x_calls) < MaxRuns
    /\ \E raised \in BOOLEAN :
          x_last' = Ran("multi_svm_test", {BuiltWith(TEST, "StandardScaler", "psd2")}, raised)
    /\ x_calls' = Append(x_calls, "multi_svm_test")
    /\ UNCHANGED <<TEST, notExperiment>>

\* band_comb_test(db_name): TEST = TestType.BAND_COMB.
BandCombTest ==
    /\ Len(x_calls) < MaxRuns
    /\ TEST' = "BAND_COMB"
    /\ \E raised \in BOOLEAN :
          x_last' = Ran("band_comb_test", {BuiltWith(TEST', "StandardScaler", "psd2")}, raised)
    /\ x_calls' = Append(x_calls, "band_comb_test")
    /\ UNCHANGED notExperiment

\* band_comb_test_old(db_name): TEST = TestType.NO_TEST, norm=Normalizer,
\* method='fftabs'.
BandCombTestOld ==
    /\ Len(x_calls) < MaxRuns
    /\ TEST' = "NO_TEST"
    /\ \E raised \in BOOLEAN :
          x_last' = Ran("band_comb_test_old", {BuiltWith(TEST', "Normalizer", "fftabs")}, raised)
    /\ x_calls' = Append(x_calls, "band_comb_test_old")
    /\ UNCHANGED notExperiment

\* norm_test(db_name): for TEST in [NORM_SINGLE, NORM_MULTI], for norm in
\* the four normalisations; the loop goes through its values or a test_db
\* call raises on the way.
NormTest ==
    /\ Len(x_calls) < MaxRuns
    /\ LET tests == <<"NORM_SINGLE", "NORM_MULTI">>
           norms == {"FunctionTransformer", "Normalizer", "StandardScaler", "MinMaxScaler"}
       IN  \E reached \in DOMAIN tests, raised \in BOOLEAN :
              /\ reached < Len(tests) => raised
              /\ TEST' = tests[reached]
              /\ x_last' = Ran("norm_test",
                                {BuiltWith(tests[k], norm, "psd2") :
                                    k \in 1..reached, norm \in norms},
                                raised)
    /\ x_calls' = Append(x_calls, "norm_test")
    /\ UNCHANGED notExperiment

\* fft_test(db_name): for TEST in [FFT_SINGLE, FFT_MULTI], for method in the
\* four spectrum methods.
FftTest ==
    /\ Len(x_calls) < MaxRuns
    /\ LET tests == <<"FFT_SINGLE", "FFT_MULTI">>
           methods == {"psd", "psd2", "fftabs", "fftpow"}
       IN  \E reached \in DOMAIN tests, raised \in BOOLEAN :
              /\ reached < Len(tests) => raised
              /\ TEST' = tests[reached]
              /\ x_last' = Ran("fft_test",
                                {BuiltWith(tests[k], "StandardScaler", method) :
                                    k \in 1..reached, method \in methods},
                                raised)
    /\ x_calls' = Append(x_calls, "fft_test")
    /\ UNCHANGED notExperiment

ExperimentNext == MultiSvmTest \/ BandCombTest \/ BandCombTestOld \/ NormTest \/ FftTest

\* ------------------------------------------------- experiments: properties
\* C29: whatever experiment functions ran before it in the process,
\* multi_svm_test builds the default multi-SVM (new_multi_svm with the
\* defaults of test_db), the variant its own arguments ask for.
MultiSvmTestTrainsDefaultVariant ==
    (x_last # NoCall /\ x_last.fn = "multi_svm_test") =>
        x_last.built = {BuiltWith("NO_TEST", "StandardScaler", "psd2")}

\* ------------------------------------------- test_db: windows, groups, folds
\* window_epochs(epochs.get_data(), ...): element [e][w] of the result is
\* window w of epoch e (counted from 0).
WindowedData(N, W) ==
    [e \in 1..N |-> [w \in 1..W |-> [epoch |-> e - 1, window |-> w - 1]]]

\* np.vstack(windowed_data): the per-epoch blocks one after the other.
RECURSIVE VstackFrom(_, _)
VstackFrom(windowed_data, e) ==
    IF e > Len(windowed_data) THEN <<>>
    ELSE windowed_data[e] \o VstackFrom(windowed_data, e + 1)
Vstack(windowed_data) == VstackFrom(windowed_data, 1)

\* Mutant of GroupsOf: the group id is the position of the window in its
\* epoch.
GroupsByWindow(N, W) == [r \in 1..(N * W) |-> (r - 1) % W]

\* groups = [i // windowed_data.shape[1] for i in range(shape[0] * shape[1])];
\* the element at Python index i is at position i + 1 here.
GroupsOf(N, W) == [r \in 1..(N * W) |-> (r - 1) \div W]

\* labels = [ep_labels[i // windowed_data.shape[1]] for i in range(len(groups))].
WindowLabels(ep_labels, W, n) == [r \in 1..n |-> ep_labels[((r - 1) \div W) + 1]]

\* StratifiedGroupKFold(shuffle=False): five splits by default; split refuses
\* fewer samples than splits, and classes that all have fewer members than
\* splits.
NSplits == 5
SplitRaises(y) ==
    \/ NSplits > Len(y)
    \/ \A label \in {y[r] : r \in DOMAIN y} : NSplits > Cardinality({r \in DOMAIN y : y[r] = label})

NoClf == [id |-> 0, built_by |-> "none", fitted_on |-> {}]

notStack == <<wvars, cvvars, bvars, fvars, ovars, vvars, tvars, evars, svars, xvars, pvars>>

StackStart ==
    /\ k_pc = "idle"
    /\ \E N \in 1..MaxEpochs :
          k_epochs \in [ep_labels : [1..N -> Labels], W : 0..MaxWindows]
    /\ k_rows = <<>>
    /\ k_groups = <<>>
    /\ k_labels = <<>>
    /\ k_left = {}
    /\ k_fold = 0
    /\ k_train = {}
    /\ k_test = {}
    /\ k_clf = NoClf
    /\ k_made = 0

StackIdle ==
    /\ k_pc = "idle"
    /\ k_epochs = [ep_labels |-> <<"rest">>, W |-> 0]
    /\ k_rows = <<>>
    /\ k_groups = <<>>
    /\ k_labels = <<>>
    /\ k_left = {}
    /\ k_fold = 0
    /\ k_train = {}
    /\ k_test = {}
    /\ k_clf = NoClf
    /\ k_made = 0

\* test_db, lines 289-296: the epochs are windowed, groups and labels are
\* built and the windows stacked.
TestDbWindowAndStack ==
    /\ k_pc = "idle"
    /\ LET N == Len(k_epochs.ep_labels)
           W == k_epochs.W
           groups == GroupsOf(N, W)
       IN  /\ k_groups' = groups
           /\ k_labels' = WindowLabels(k_epochs.ep_labels, W, Len(groups))
           /\ k_rows' = Vstack(WindowedData(N, W))
    /\ k_pc' = "stacked"
    /\ UNCHANGED <<k_epochs, k_left, k_fold, k_train, k_test, k_clf, k_made, notStack>>

\* train_test_model up to the first fold: the splitter is made and asked
\* for its folds.
TrainTestModelEnter ==
    /\ k_pc = "stacked"
    /\ k_pc' = IF SplitRaises(k_labels) THEN "raised" ELSE "folds"
    /\ k_left' = {k_groups[r] : r \in DOMAIN k_groups}
    /\ k_fold' = 0
    /\ UNCHANGED <<k_epochs, k_rows, k_groups, k_labels, k_train, k_test, k_clf, k_made,
                   notStack>>

\* One pass of the loop: the splitter gives the next fold, whose test set is
\* made of whole groups no earlier fold tested (the last fold takes what is
\* left); a classifier is built by get_classifier and fitted on the train
\* part.
TrainTestModelFold ==
    /\ k_pc = "folds"
    /\ k_fold < NSplits
    /\ \E test_groups \in SUBSET k_left :
          /\ (k_fold = NSplits - 1) => test_groups = k_left
          /\ k_left' = k_left \ test_groups
          /\ k_test' = {r \in DOMAIN k_groups : k_groups[r] \in test_groups}
          /\ k_train' = {r \in DOMAIN k_groups : k_groups[r] \notin test_groups}
    /\ k_made' = k_made + 1
    /\ k_clf' = [id |-> k_made',
                 built_by |-> GetClassifier(TEST, "fs", "fft_ranges", "StandardScaler",
                                            "psd2").built_by,
                 fitted_on |-> k_train']
    /\ k_fold' = k_fold + 1
    /\ UNCHANGED <<k_pc, k_epochs, k_rows, k_groups, k_labels, notStack>>

\* The splitter is exhausted: train_test_model returns cross_acc.
TrainTestModelReturn ==
    /\ k_pc = "folds"
    /\ k_fold = NSplits
    /\ k_pc' = "returned"
    /\ UNCHANGED <<k_epochs, k_rows, k_groups, k_labels, k_left, k_fold, k_train, k_test,
                   k_clf, k_made, notStack>>

StackNext ==
    \/ TestDbWindowAndStack
    \/ TrainTestModelEnter
    \/ TrainTestModelFold
    \/ TrainTestModelReturn

\* ------------------------------- test_db: windows, groups, folds: properties
\* C26: after windowing and stacking, row i of the feature array is window
\* (i mod W) of epoch (i div W), its group id is (i div W) and its label is
\* that epoch's label; in every fold of train_test_model no epoch has
\* windows in both the train and the test part, and the fold's classifier is
\* an object built for this fold and fitted on its train part only.
WindowsKeepEpochIdentity ==
    LET W == k_epochs.W
        N == Len(k_epochs.ep_labels)
    IN  /\ k_pc # "idle" =>
              /\ Len(k_rows) = N * W
              /\ Len(k_groups) = N * W
              /\ Len(k_labels) = N * W
              /\ \A i \in 0..(N * W - 1) :
                    /\ k_rows[i + 1] = [epoch |-> i \div W, window |-> i % W]
                    /\ k_groups[i + 1] = i \div W
                    /\ k_labels[i + 1] = k_epochs.ep_labels[(i \div W) + 1]
        /\ k_fold >= 1 =>
              /\ k_train \cap k_test = {}
              /\ k_train \cup k_test = DOMAIN k_rows
              /\ \A r1 \in k_train, r2 \in k_test : k_rows[r1].epoch # k_rows[r2].epoch
              /\ k_clf.id = k_fold
              /\ k_made = k_fold
              /\ k_clf.fitted_on = k_train

\* C26 witness: a fold over three or more epochs of two windows each has
\* both train and test windows.
FoldWithTrainAndTestWindows ==
    /\ k_pc = "folds"
    /\ k_epochs.W = 2
    /\ Len(k_epochs.ep_labels) >= 3
    /\ k_fold >= 2
    /\ Cardinality(k_test) >= 2
    /\ Cardinality(k_train) >= 2

\* ------------------------------------------------------ offline processing
SupportedDbs == {"physionet", "pilot"}
Methods == {"subjectXvalidate", "trainSVM", "other"}
NoValue == "no value"

\* self._proc.run(feature=feature): the processor of a database that was
\* configured builds its feature files; what a processor that was never
\* configured does is not fixed, it ends with an error or goes on.
ProcRunOutcomes(proc) ==
    IF proc \in SupportedDbs THEN {"ok"} ELSE {"ok", "Error in run"}

\* Mutant of SaveModelOf: every method saves the model map.
SaveModelAlways(method) == TRUE

\* The save_model argument offline_processing gives _subject_crossvalidate:
\* the default False for 'subjectXvalidate', True for 'trainSVM'.
SaveModelOf(method) == method = "trainSVM"

notOffline == <<wvars, bvars, fvars, ovars, vvars, tvars, evars, xvars, pvars, kvars>>

OfflineStart ==
    /\ s_pc = "idle"
    /\ s_args = NoCall
    /\ s_proc = None
    /\ s_error = None
    /\ s_result = NoValue
    /\ s_calls = 0

OfflineIdle == OfflineStart

\* offline_processing(db_name, method=method) up to the dispatch on method:
\* _init_db_processor, then self._proc.run.
OfflineProcessingEnter ==
    /\ s_pc \in {"idle", "returned", "raised"}
    /\ s_calls < MaxCalls
    /\ \E db_name \in DbNames, method \in Methods :
          LET proc == InitDbProcessor(s_proc, db_name)
          IN  /\ s_args' = [db_name |-> db_name, method |-> method]
              /\ s_proc' = proc
              /\ IF InitDbProcessorRaises(s_proc, db_name)
                 THEN /\ s_pc' = "raised"
                      /\ s_error' = "NotImplementedError (database)"
                 ELSE \E out \in ProcRunOutcomes(proc) :
                        IF out # "ok"
                        THEN /\ s_pc' = "raised"
                             /\ s_error' = out
                        ELSE IF method \in {"subjectXvalidate", "trainSVM"}
                        THEN /\ s_pc' = "xval"
                             /\ s_error' = None
                        ELSE /\ s_pc' = "raised"
                             /\ s_error' = "NotImplementedError (method)"
    /\ s_calls' = s_calls + 1
    /\ s_result' = NoValue
    /\ cv_pc' = "idle"
    /\ UNCHANGED <<cv_subjects, cv_save, cv_folds, cv_k, cv_seen, ai_model, model_file,
                   other_files, notOffline>>

\* self._subject_crossvalidate(subj_n_fold_num) or
\* self._subject_crossvalidate(save_model=True), step by step.
OfflineXvalEnter ==
    /\ s_pc = "xval"
    /\ SubjectCrossvalidateEnter
    /\ cv_save' = SaveModelOf(s_args.method)

OfflineXvalFold ==
    /\ s_pc = "xval"
    /\ SubjectCrossvalidateFold

OfflineXvalReturn ==
    /\ s_pc = "xval"
    /\ SubjectCrossvalidateReturn

\* _subject_crossvalidate has returned or raised: offline_processing falls
\* off its end (and returns None) or lets the exception through.
OfflineProcessingReturn ==
    /\ s_pc = "xval"
    /\ cv_pc \in {"done", "raised"}
    /\ IF cv_pc = "done"
       THEN /\ s_pc' = "returned"
            /\ s_result' = None
            /\ s_error' = None
       ELSE /\ s_pc' = "raised"
            /\ s_error' = "OSError"
            /\ UNCHANGED s_result
    /\ UNCHANGED <<s_args, s_proc, s_calls, cvvars, notOffline>>

OfflineStep ==
    OfflineXvalEnter \/ OfflineXvalFold \/ OfflineXvalReturn \/ OfflineProcessingReturn

OfflineNext ==
    \/ OfflineProcessingEnter
    \/ OfflineXvalEnter
    \/ OfflineXvalFold
    \/ OfflineXvalReturn
    \/ OfflineProcessingReturn

\* ------------------------------------------ offline processing: properties
\* The call in progress or just ended is a subject cross-validation of a
\* supported database on a processor that was configured.
CrossvalidationCall ==
    /\ s_pc # "idle"
    /\ s_args.db_name \in SupportedDbs
    /\ s_args.method = "subjectXvalidate"
    /\ s_proc \in SupportedDbs

InitFailureLeavesNoProcessor ==
    /\ (s_pc = "raised" /\ s_error = "NotImplementedError (database)") => s_proc = None
    /\ (s_pc # "idle" /\ s_args.db_name \in SupportedDbs) => s_proc \in SupportedDbs

\* ---------------------------------------------------------- specifications
\* Each part of the program is checked on its own, the other parts at rest.
WindowSpecInit ==
    WindowStart /\ CvIdle /\ BalanceIdle /\ FeatureIdle /\ OnlineIdle /\ ConfigIdle /\ TestDbIdle
        /\ EpochsIdle /\ OfflineIdle /\ ExperimentIdle /\ ProcessIdle /\ StackIdle
WindowSpec == WindowSpecInit /\ [][WindowNext]_vars

CvSpecInit ==
    CvStart /\ WindowIdle /\ BalanceIdle /\ FeatureIdle /\ OnlineIdle /\ ConfigIdle /\ TestDbIdle
        /\ EpochsIdle /\ OfflineIdle /\ ExperimentIdle /\ ProcessIdle /\ StackIdle
CvSpec == CvSpecInit /\ [][CvNext]_vars

BalanceSpecInit ==
    BalanceStart /\ WindowIdle /\ CvIdle /\ FeatureIdle /\ OnlineIdle /\ ConfigIdle /\ TestDbIdle
        /\ EpochsIdle /\ OfflineIdle /\ ExperimentIdle /\ ProcessIdle /\ StackIdle
BalanceSpec == BalanceSpecInit /\ [][BalanceNext]_vars

FeatureSpecInit ==
    FeatureStart /\ WindowIdle /\ CvIdle /\ BalanceIdle /\ OnlineIdle /\ ConfigIdle /\ TestDbIdle
        /\ EpochsIdle /\ OfflineIdle /\ ExperimentIdle /\ ProcessIdle /\ StackIdle
FeatureSpec == FeatureSpecInit /\ [][FeatureNext]_vars

ConfigSpecInit ==
    ConfigStart /\ WindowIdle /\ CvIdle /\ BalanceIdle /\ FeatureIdle /\ OnlineIdle
                /\ TestDbIdle /\ EpochsIdle /\ OfflineIdle /\ ExperimentIdle /\ ProcessIdle /\ StackIdle
ConfigSpec == ConfigSpecInit /\ [][ConfigNext]_vars

TestDbSpecInit ==
    TestDbStart /\ WindowIdle /\ CvIdle /\ BalanceIdle /\ FeatureIdle /\ OnlineIdle
                /\ ConfigIdle /\ EpochsIdle /\ OfflineIdle /\ ExperimentIdle /\ ProcessIdle /\ StackIdle
TestDbSpec == TestDbSpecInit /\ [][TestDbNext]_vars

EpochsSpecInit ==
    EpochsStart /\ WindowIdle /\ CvIdle /\ BalanceIdle /\ FeatureIdle /\ OnlineIdle
                /\ ConfigIdle /\ TestDbIdle /\ OfflineIdle /\ ExperimentIdle /\ ProcessIdle /\ StackIdle
EpochsSpec == EpochsSpecInit /\ [][EpochsNext]_vars

OfflineSpecInit ==
    OfflineStart /\ CvStart /\ WindowIdle /\ BalanceIdle /\ FeatureIdle /\ OnlineIdle
                 /\ ConfigIdle /\ TestDbIdle /\ EpochsIdle /\ ExperimentIdle /\ ProcessIdle /\ StackIdle
OfflineSpec == OfflineSpecInit /\ [][OfflineNext]_vars

\* The thread running offline_processing keeps running: a step of the
\* cross-validation that can be taken is taken.
OfflineLiveSpec == OfflineSpecInit /\ [][OfflineNext]_vars /\ WF_vars(OfflineStep)

ExperimentSpecInit ==
    ExperimentStart /\ WindowIdle /\ CvIdle /\ BalanceIdle /\ FeatureIdle /\ OnlineIdle
                    /\ ConfigIdle /\ TestDbIdle /\ EpochsIdle /\ OfflineIdle /\ ProcessIdle /\ StackIdle
ExperimentSpec == ExperimentSpecInit /\ [][ExperimentNext]_vars

ProcessSpecInit ==
    ProcessStart /\ WindowIdle /\ CvIdle /\ BalanceIdle /\ FeatureIdle /\ OnlineIdle
                 /\ ConfigIdle /\ TestDbIdle /\ EpochsIdle /\ OfflineIdle /\ ExperimentIdle
                 /\ StackIdle
ProcessSpec == ProcessSpecInit /\ [][ProcessNext]_vars

\* Both processes keep running: a step one of them can take is taken.
ProcessLiveSpec == ProcessSpecInit /\ [][ProcessNext]_vars /\ WF_vars(ProcessStep)

StackSpecInit ==
    StackStart /\ WindowIdle /\ CvIdle /\ BalanceIdle /\ FeatureIdle /\ OnlineIdle
               /\ ConfigIdle /\ TestDbIdle /\ EpochsIdle /\ OfflineIdle /\ ExperimentIdle
               /\ ProcessIdle
StackSpec == StackSpecInit /\ [][StackNext]_vars

\* The online run starts from the model file an earlier training run left,
\* or from none.
OnlineSpecInit ==
    /\ OnlineStart
    /\ WindowIdle /\ BalanceIdle /\ FeatureIdle /\ ConfigIdle /\ TestDbIdle /\ EpochsIdle /\ OfflineIdle /\ ExperimentIdle /\ ProcessIdle /\ StackIdle
    /\ cv_subjects = <<1, 2>>
    /\ cv_pc = "idle"
    /\ cv_save = FALSE
    /\ cv_folds = <<>>
    /\ cv_k = 1
    /\ cv_seen = <<>>
    /\ ai_model = EmptyDict
    /\ model_file \in {NoFile, SavedModels(cv_subjects)}
    /\ other_files = {}
OnlineSpec == OnlineSpecInit /\ [][OnlineNext]_vars

\* The thread running online_processing keeps running: a step of the loop
\* that can be taken is taken.
OnlineLiveSpec == OnlineSpecInit /\ [][OnlineNext]_vars /\ WF_vars(OnlineStep)

====
